---- MODULE Spec2Model ----
(***************************************************************************)
(* moltworker: the confirmation gate (tools/registry.ts, r2/pending-       *)
(* actions.ts, the /approve and /reject commands of telegram/webhook.ts),  *)
(* the delivery dedup and per-chat lock of processUpdate, and the tool-use *)
(* loop of callClaude.                                                     *)
(*                                                                         *)
(* Three specifications share the module:                                  *)
(*   SpecGate  executeTool, /approve, /reject over the pending-action      *)
(*             records of one chat, interleaved at their store accesses;   *)
(*   SpecHook  processUpdate deliveries of one chat, interleaved at their  *)
(*             store accesses, with crashes of the worker;                 *)
(*   SpecLoop  one callClaude turn against a nondeterministic model        *)
(*             service.                                                    *)
(* Each process is split where the code awaits an operation on state that  *)
(* another request can see (the R2 bucket, the executor's outside world);  *)
(* awaits on private state are folded into the step before them.           *)
(***************************************************************************)
EXTENDS Integers, Sequences, FiniteSets

VARIABLES
    now,        \* Date.now(), in ticks
    store,      \* pending-actions/<chat>/<id>.json objects of the bucket
    usedIds,    \* every id crypto.randomUUID() has returned
    saved,      \* history: every record handed to savePendingAction
    execLog,    \* history: every invocation of a tool executor
    rejected,   \* history: ids /reject reported as cancelled
    expired,    \* history: ids a read path deleted as expired
    gp,         \* the gate's requests in flight, one record per process
    dedup,      \* update ids with a locks/update_<id> marker in the bucket
    lock,       \* timestamp of the locks/chat_<chatId> object, or NoLock
    dl,         \* processUpdate invocations, one record per delivery
    lp,         \* one callClaude invocation: its locals and what it has done
    tb,         \* the tool block of one callClaude iteration (index.ts:186-230)
    rg,         \* the tool registry and the last call made on it
    sm,         \* the calls of selectModel made so far and the last one
    cv          \* conversations/<chatId>.json and the turns that load and save it

gateVars == <<store, usedIds, saved, execLog, rejected, expired, gp>>

hookVars == <<dedup, lock, dl>>

vars == <<now, gateVars, hookVars, lp, tb, rg, sm, cv>>

(* What the steps of each specification leave alone. *)
gateFrame == <<hookVars, lp, tb, rg, sm, cv>>

hookFrame == <<gateVars, lp, tb, rg, sm, cv>>

loopFrame == <<now, gateVars, hookVars, tb, rg, sm, cv>>

toolsFrame == <<now, rejected, expired, gp, hookVars, lp, rg, sm, cv>>

registryFrame == <<now, rejected, expired, gp, hookVars, lp, tb, sm, cv>>

selectFrame == <<now, gateVars, hookVars, lp, tb, rg, cv>>

historyFrame == <<gateVars, dedup, dl, lp, tb, rg, sm>>

----------------------------------------------------------------------------
(* Bounds *)

NumProcs == 3       \* concurrent gate requests
NumInputs == 2      \* distinct tool inputs
MaxTime == 3        \* ticks of the clock
MaxIds == 2         \* size of the pool randomUUID draws from
NumDeliveries == 3  \* webhook deliveries
NumUpdateIds == 2   \* distinct update_id values
MaxBlocks == 2      \* tool_use blocks in one model response
MaxToolUse == 3     \* tool_use blocks of the response whose dispatch is followed
MaxRegistrations == 2  \* registerTool calls after initializeTools
MaxCalls == 3       \* calls made on the registry

Procs == 1..NumProcs
Inputs == 1..NumInputs
Ids == 1..MaxIds
Deliveries == 1..NumDeliveries
UpdateIds == 1..NumUpdateIds

(* config.ts: PENDING_ACTION_TTL_MS = 600_000, counted here in ticks of    *)
(* 300 000 ms. Only comparisons with Date.now() use it.                    *)
PENDING_ACTION_TTL_MS == 2

(* webhook.ts: the 30_000 of the lock check, in ticks of 15 000 ms.        *)
LOCK_TTL_MS == 2

(* config.ts: MAX_TOOL_ITERATIONS = 10 *)
MAX_TOOL_ITERATIONS == 10

(* callClaude's clock counts ticks of 1 000 ms.                            *)
(* client.ts imports WALL_CLOCK_TIMEOUT_MS from ../config; the config      *)
(* source at hand does not hold its value. 30 s is taken here; callClaude  *)
(* only compares the elapsed time with it.                                 *)
WALL_CLOCK_TIMEOUT_MS == 30

(* client.ts: setTimeout(r, 3000) before every iteration after the first *)
PACING_DELAY_MS == 3

(* client.ts: DEFAULT_RETRY_DELAYS = [2000, 5000, 15000] *)
DEFAULT_RETRY_DELAYS == <<2, 5, 15>>

(* client.ts: CRON_RETRY_DELAYS = [5000, 15000, 30000, 60000] *)
CRON_RETRY_DELAYS == <<5, 15, 30, 60>>

----------------------------------------------------------------------------
(* The registry after initializeTools: post_tweet is registered with      *)
(* requiresConfirmation, web_search without.                               *)

RegisteredTools == {"post_tweet", "web_search"}

(* social/twitter/tools.ts: registerTool(post_tweet, ..., { requiresConfirmation: true }) *)
GatedTools == {"post_tweet"}

RequiresConfirmationNever(name) == FALSE

(* registry.ts executeTool: if (tool.requiresConfirmation) *)
RequiresConfirmation(name) == name \in GatedTools

RequestableTools == RegisteredTools \cup {"no_such_tool"}

(* What an executor can do: return a result, return isError, or throw.     *)
ExecutorOutcomes == {"ok", "error", "throw"}

NoAction ==
    [id |-> 0, toolName |-> "none", input |-> 0, createdAt |-> 0, expiresAt |-> 0]

NoOutput ==
    [result |-> "none", isError |-> FALSE, wasConfirmationGated |-> FALSE,
     pendingActionId |-> 0]

IdleProc ==
    [kind |-> "idle", pc |-> "idle", toolName |-> "none", input |-> 0,
     listed |-> <<>>, idx |-> 1, nowL |-> 0, actions |-> <<>>,
     action |-> NoAction, out |-> NoOutput, msg |-> "none",
     quiet |-> FALSE]

----------------------------------------------------------------------------
(* Pure helpers *)

RECURSIVE SeqOfSet(_)
(* bucket.list: the keys under the prefix, in key order. *)
SeqOfSet(S) ==
    IF S = {} THEN <<>>
    ELSE LET m == CHOOSE x \in S : \A y \in S : x <= y
         IN <<m>> \o SeqOfSet(S \ {m})

RECURSIVE InsertByCreatedDesc(_, _)
(* Stable insertion for the comparator (a, b) => b.createdAt - a.createdAt *)
InsertByCreatedDesc(a, s) ==
    IF s = <<>> THEN <<a>>
    ELSE IF Head(s).createdAt >= a.createdAt
         THEN <<Head(s)>> \o InsertByCreatedDesc(a, Tail(s))
         ELSE <<a>> \o s

Unsorted(s) == s

RECURSIVE SortByCreatedDesc(_)
SortByCreatedDesc(s) ==
    IF s = <<>> THEN <<>>
    ELSE LET rest == SortByCreatedDesc(SubSeq(s, 1, Len(s) - 1))
         IN InsertByCreatedDesc(s[Len(s)], rest)

StoredIds == {r.id : r \in store}

Stored(id) == CHOOSE r \in store : r.id = id

ResultOfThrowSucceeds(outcome) ==
    CASE outcome = "ok" -> [result |-> "done", isError |-> FALSE]
      [] outcome = "error" -> [result |-> "failed", isError |-> TRUE]
      [] OTHER -> [result |-> "Tool error", isError |-> FALSE]

(* The result executeToolDirect / executeTool builds from an executor run. *)
ResultOf(outcome) ==
    CASE outcome = "ok" -> [result |-> "done", isError |-> FALSE]
      [] outcome = "error" -> [result |-> "failed", isError |-> TRUE]
      [] OTHER -> [result |-> "Tool error", isError |-> TRUE]

----------------------------------------------------------------------------
(* The confirmation gate: executeTool, loadPendingActions, /approve and    *)
(* /reject.                                                                *)

(* registry.ts: expiresAt: now + PENDING_ACTION_TTL_MS *)
ExpiresAt(createdAt) == createdAt + PENDING_ACTION_TTL_MS

IsExpiredNever(nowL, action) == FALSE

(* pending-actions.ts: if (now > action.expiresAt) *)
IsExpired(nowL, action) == nowL > action.expiresAt

(* The gate's state while it is not exercised. *)
GateIdle ==
    /\ store = {}
    /\ usedIds = {}
    /\ saved = {}
    /\ execLog = {}
    /\ rejected = {}
    /\ expired = {}
    /\ gp = <<>>

(* The webhook's state while it is not exercised. *)
HookIdle ==
    /\ dedup = {}
    /\ lock = -1
    /\ dl = <<>>

(* No callClaude invocation. *)
LoopIdle == lp = <<>>

ToolsIdle == tb = <<>>

RegistryIdle == rg = <<>>

SelectIdle == sm = <<>>

HistoryIdle == cv = <<>>

(* Requests arrive in the order of their process numbers (the numbers are  *)
(* labels: any arrival order is some numbering).                           *)
Arrived(p) == IF p = 1 THEN TRUE ELSE gp[p - 1].pc # "idle"

GateInit ==
    /\ SelectIdle
    /\ HistoryIdle
    /\ now = 0
    /\ store = {}
    /\ usedIds = {}
    /\ saved = {}
    /\ execLog = {}
    /\ rejected = {}
    /\ expired = {}
    /\ gp = [p \in Procs |-> IdleProc]
    /\ HookIdle
    /\ LoopIdle
    /\ ToolsIdle
    /\ RegistryIdle

(* executeTool(block, ctx), called by a turn for one tool_use block.       *)
ExecuteTool(p) ==
    /\ gp[p].pc = "idle"
    /\ Arrived(p)
    /\ \E name \in RequestableTools, input \in Inputs :
        IF name \notin RegisteredTools
        THEN /\ gp' = [gp EXCEPT ![p] = [@ EXCEPT
                    !.kind = "tool", !.pc = "done", !.toolName = name,
                    !.input = input,
                    !.out = [result |-> "Unknown tool", isError |-> TRUE,
                             wasConfirmationGated |-> FALSE,
                             pendingActionId |-> 0]]]
             /\ UNCHANGED <<store, usedIds, saved, execLog>>
        ELSE IF RequiresConfirmation(name)
        THEN \E actionId \in Ids \ usedIds :
             LET rec == [id |-> actionId, toolName |-> name, input |-> input,
                         createdAt |-> now, expiresAt |-> ExpiresAt(now)]
             IN /\ usedIds' = usedIds \cup {actionId}
                /\ store' = store \cup {rec}
                /\ saved' = saved \cup {rec}
                /\ gp' = [gp EXCEPT ![p] = [@ EXCEPT
                       !.kind = "tool", !.pc = "done", !.toolName = name,
                       !.input = input,
                       !.out = [result |-> "queued", isError |-> FALSE,
                                wasConfirmationGated |-> TRUE,
                                pendingActionId |-> actionId]]]
                /\ UNCHANGED execLog
        ELSE \E outcome \in ExecutorOutcomes :
             /\ execLog' = execLog \cup
                    {[by |-> p, id |-> 0, toolName |-> name, input |-> input]}
             /\ gp' = [gp EXCEPT ![p] = [@ EXCEPT
                    !.kind = "tool", !.pc = "done", !.toolName = name,
                    !.input = input,
                    !.out = [result |-> ResultOf(outcome).result,
                             isError |-> ResultOf(outcome).isError,
                             wasConfirmationGated |-> FALSE,
                             pendingActionId |-> 0]]]
             /\ UNCHANGED <<store, usedIds, saved>>
    /\ UNCHANGED <<now, rejected, expired, gateFrame>>

(* No other request is in flight: those that have begun have returned.    *)
Quiet(p) == \A q \in Procs \ {p} : gp[q].pc \in {"idle", "done"}

(* handleCommand '/approve' or '/reject' up to loadPendingActions'          *)
(* bucket.list and const now = Date.now().                                 *)
CommandList(p) ==
    /\ gp[p].pc = "idle"
    /\ Arrived(p)
    /\ \E kind \in {"approve", "reject"} :
        gp' = [gp EXCEPT ![p] = [@ EXCEPT
                 !.kind = kind, !.pc = "scan",
                 !.listed = SeqOfSet(StoredIds), !.idx = 1, !.nowL = now,
                 !.actions = <<>>, !.quiet = Quiet(p)]]
    /\ UNCHANGED <<now, store, usedIds, saved, execLog, rejected, expired, gateFrame>>

(* loadPendingActions: one pass of the for loop up to its next await:      *)
(* bucket.get(obj.key), then skip, push, or go on to delete as expired.    *)
Scan(p) ==
    /\ gp[p].pc = "scan"
    /\ gp[p].idx <= Len(gp[p].listed)
    /\ LET id == gp[p].listed[gp[p].idx]
       IN IF id \notin StoredIds
          THEN gp' = [gp EXCEPT ![p].idx = @ + 1]
          ELSE IF IsExpired(gp[p].nowL, Stored(id))
          THEN gp' = [gp EXCEPT ![p].pc = "expire"]
          ELSE gp' = [gp EXCEPT ![p].idx = @ + 1,
                                ![p].actions = Append(@, Stored(id))]
    /\ UNCHANGED <<now, store, usedIds, saved, execLog, rejected, expired, gateFrame>>

(* loadPendingActions: await bucket.delete(obj.key); continue *)
Expire(p) ==
    /\ gp[p].pc = "expire"
    /\ LET id == gp[p].listed[gp[p].idx]
       IN /\ store' = {r \in store : r.id # id}
          /\ expired' = expired \cup {id}
    /\ gp' = [gp EXCEPT ![p].pc = "scan", ![p].idx = @ + 1]
    /\ UNCHANGED <<now, usedIds, saved, execLog, rejected, gateFrame>>

(* loadPendingActions' return actions.sort(...), then handleCommand:       *)
(* nothing pending, or const action = actions[0].                          *)
Pick(p) ==
    /\ gp[p].pc = "scan"
    /\ gp[p].idx > Len(gp[p].listed)
    /\ LET sorted == SortByCreatedDesc(gp[p].actions)
       IN IF sorted = <<>>
          THEN gp' = [gp EXCEPT ![p] = [IdleProc EXCEPT
                          !.kind = gp[p].kind, !.pc = "done",
                          !.quiet = gp[p].quiet,
                          !.msg = "No pending actions"]]
          ELSE gp' = [gp EXCEPT ![p].actions = <<>>, ![p].listed = <<>>,
                                ![p].idx = 1, ![p].nowL = 0,
                                ![p].action = sorted[1],
                                ![p].pc = IF gp[p].kind = "approve"
                                          THEN "exec" ELSE "delete"]
    /\ UNCHANGED <<now, store, usedIds, saved, execLog, rejected, expired, gateFrame>>

(* '/approve': executeToolDirect(action.toolName, action.input, toolCtx)   *)
Exec(p) ==
    /\ gp[p].pc = "exec"
    /\ IF gp[p].action.toolName \notin RegisteredTools
       THEN /\ gp' = [gp EXCEPT ![p].pc = "delete",
                        ![p].out = [NoOutput EXCEPT
                            !.result = "Unknown tool", !.isError = TRUE]]
            /\ UNCHANGED execLog
       ELSE \E outcome \in ExecutorOutcomes :
            /\ execLog' = execLog \cup
                   {[by |-> p, id |-> gp[p].action.id,
                     toolName |-> gp[p].action.toolName,
                     input |-> gp[p].action.input]}
            /\ gp' = [gp EXCEPT ![p].pc = "delete",
                        ![p].out = [NoOutput EXCEPT
                            !.result = ResultOf(outcome).result,
                            !.isError = ResultOf(outcome).isError]]
    /\ UNCHANGED <<now, store, usedIds, saved, rejected, expired, gateFrame>>

DeleteKeepsRecord(p) ==
    /\ gp[p].pc = "delete"
    /\ IF gp[p].kind = "reject"
       THEN /\ rejected' = rejected \cup {gp[p].action.id}
            /\ gp' = [gp EXCEPT ![p].pc = "done", ![p].msg = "Action cancelled"]
       ELSE /\ UNCHANGED rejected
            /\ gp' = [gp EXCEPT ![p].pc = "done",
                        ![p].msg = IF gp[p].out.isError
                                   THEN "Action failed"
                                   ELSE "Action approved and executed"]
    /\ UNCHANGED <<now, store, usedIds, saved, execLog, expired, gateFrame>>

(* deletePendingAction(bucket, chatId, action.id) and the reply that       *)
(* follows it.                                                             *)
Delete(p) ==
    /\ gp[p].pc = "delete"
    /\ store' = {r \in store : r.id # gp[p].action.id}
    /\ IF gp[p].kind = "reject"
       THEN /\ rejected' = rejected \cup {gp[p].action.id}
            /\ gp' = [gp EXCEPT ![p].pc = "done", ![p].msg = "Action cancelled"]
       ELSE /\ UNCHANGED rejected
            /\ gp' = [gp EXCEPT ![p].pc = "done",
                        ![p].msg = IF gp[p].out.isError
                                   THEN "Action failed"
                                   ELSE "Action approved and executed"]
    /\ UNCHANGED <<now, usedIds, saved, execLog, expired, gateFrame>>

(* Time passes between any two steps. *)
GateTick ==
    /\ now < MaxTime
    /\ now' = now + 1
    /\ UNCHANGED <<gateVars, gateFrame>>

GateNext ==
    \/ \E p \in Procs : ExecuteTool(p)
    \/ \E p \in Procs : CommandList(p)
    \/ \E p \in Procs : Scan(p)
    \/ \E p \in Procs : Expire(p)
    \/ \E p \in Procs : Pick(p)
    \/ \E p \in Procs : Exec(p)
    \/ \E p \in Procs : Delete(p)
    \/ GateTick

SpecGate == GateInit /\ [][GateNext]_vars

(* The gate when the chat already has pending actions: k gated tool calls  *)
(* of earlier turns were queued at time 0.                                 *)
CommandsInit ==
    /\ SelectIdle
    /\ HistoryIdle
    /\ now = 0
    /\ \E k \in 0..MaxIds :
        /\ store = {[id |-> i, toolName |-> "post_tweet", input |-> 1,
                     createdAt |-> 0, expiresAt |-> ExpiresAt(0)] :
                        i \in 1..k}
        /\ usedIds = 1..k
        /\ saved = store
    /\ execLog = {}
    /\ rejected = {}
    /\ expired = {}
    /\ gp = [p \in Procs |-> IdleProc]
    /\ HookIdle
    /\ LoopIdle
    /\ ToolsIdle
    /\ RegistryIdle

SpecCommands == CommandsInit /\ [][GateNext]_vars

----------------------------------------------------------------------------
(* Properties of the confirmation gate, checked under SpecGate.            *)

ExecutionsOf(id) == {e \in execLog : e.id = id}

(* C1: under any interleaving of /approve commands for one conversation,   *)
(* the executor of any given PendingAction is invoked at most once.        *)
C1_ExecutedAtMostOnce ==
    \A id \in Ids : Cardinality(ExecutionsOf(id)) <= 1

(* C2: for any PendingAction at most one of the outcomes {executed by      *)
(* /approve, reported cancelled by /reject, treated as expired} occurs:    *)
(* a cancelled or expired action is never also executed.                   *)
C2_OneOutcome ==
    \A id \in Ids :
        /\ ~(ExecutionsOf(id) # {} /\ id \in rejected)
        /\ ~(ExecutionsOf(id) # {} /\ id \in expired)
        /\ ~(id \in rejected /\ id \in expired)

(* C3: a request for a tool registered with requiresConfirmation does not  *)
(* invoke the executor; it persists a PendingAction with a fresh id and    *)
(* expiresAt = createdAt + PENDING_ACTION_TTL_MS and returns               *)
(* wasConfirmationGated = true with that id; the executor runs for that    *)
(* request only inside an /approve command.                                *)
C3_GatedRequestIsQueued ==
    \A p \in Procs :
        (gp[p].kind = "tool" /\ gp[p].toolName \in GatedTools) =>
            /\ gp[p].out.wasConfirmationGated
            /\ \E r \in saved :
                /\ r.id = gp[p].out.pendingActionId
                /\ r.toolName = gp[p].toolName
                /\ r.input = gp[p].input
                /\ r.expiresAt = r.createdAt + PENDING_ACTION_TTL_MS
            /\ \A q \in Procs \ {p} :
                gp[q].out.pendingActionId # gp[p].out.pendingActionId
            /\ \A e \in execLog :
                /\ e.by # p
                /\ e.id = gp[p].out.pendingActionId => gp[e.by].kind = "approve"

(* C3's case: a gated request was queued, and later an /approve ran it.    *)
C3_Witness ==
    \E p \in Procs :
        /\ gp[p].kind = "tool"
        /\ gp[p].toolName \in GatedTools
        /\ gp[p].out.wasConfirmationGated
        /\ ExecutionsOf(gp[p].out.pendingActionId) # {}

----------------------------------------------------------------------------
(* processUpdate: delivery dedup, the per-chat lock, the turn, and the     *)
(* try / catch / finally around them. One chat.                            *)

NoLock == -1

(* The update kinds processUpdate tells apart:                             *)
(*   text      a non-command text message of an allowed user               *)
(*   command   a text starting with '/'                                   *)
(*   nontext   a message without text                                      *)
(*   denied    a message of a user the allowlist rejects                   *)
(*   callback  a callback_query (inline button)                            *)
Kinds == {"text", "command", "nontext", "denied", "callback"}

NewDelivery ==
    [kind |-> "none", uid |-> 0, pc |-> "idle", begunAfterMark |-> FALSE,
     acquired |-> FALSE, lockTs |-> NoLock, sawStale |-> FALSE,
     sawTurn |-> FALSE, skipped |-> FALSE, deleteFailed |-> FALSE,
     effects |-> {}]

(* What is kept of a delivery once processUpdate has returned or the       *)
(* worker was killed: its update id, whether it had taken the lock,        *)
(* whether its cleanup delete failed, and whether it had any side effect.  *)
Ended(r, pc) ==
    [r EXCEPT !.pc = pc, !.kind = "none", !.lockTs = NoLock,
              !.sawStale = FALSE, !.sawTurn = FALSE, !.skipped = FALSE,
              !.effects = IF r.effects = {} THEN {} ELSE {"some"}]

AlreadyProcessedNever(uid) == FALSE

(* const alreadyProcessed = await bucket.head(dedupeKey) *)
AlreadyProcessed(uid) == uid \in dedup

LockIsLiveNever(age) == FALSE

LockIsLiveInclusive(age) == age <= LOCK_TTL_MS

(* if (Date.now() - lockData.timestamp < 30_000) *)
LockIsLive(age) == age < LOCK_TTL_MS

HookInit ==
    /\ SelectIdle
    /\ HistoryIdle
    /\ now = 0
    /\ dedup = {}
    /\ lock = NoLock
    /\ dl = [d \in Deliveries |-> NewDelivery]
    /\ GateIdle
    /\ LoopIdle
    /\ ToolsIdle
    /\ RegistryIdle

(* handleTelegramWebhook calls processUpdate(update, ...). Update ids are  *)
(* numbered in the order they first arrive.                                *)
Arrive(d) ==
    /\ dl[d].pc = "idle"
    /\ IF d = 1 THEN TRUE ELSE dl[d - 1].pc # "idle"
    /\ \E uid \in UpdateIds :
        /\ \A u \in 1..(uid - 1) : \E e \in Deliveries : dl[e].uid = u
        /\ dl' = [dl EXCEPT ![d].uid = uid, ![d].pc = "head",
                            ![d].begunAfterMark = (uid \in dedup)]
    /\ UNCHANGED <<now, dedup, lock, hookFrame>>

(* await bucket.head(dedupeKey); if (alreadyProcessed) return *)
HeadCheck(d) ==
    /\ dl[d].pc = "head"
    /\ dl' = [dl EXCEPT ![d] = IF AlreadyProcessed(dl[d].uid)
                               THEN Ended(@, "done")
                               ELSE [@ EXCEPT !.pc = "mark"]]
    /\ UNCHANGED <<now, dedup, lock, hookFrame>>

MarkWithoutPut(d) ==
    /\ dl[d].pc = "mark"
    /\ \E kind \in Kinds :
        dl' = [dl EXCEPT ![d].kind = kind,
                         ![d].pc = CASE kind = "callback" -> "callback"
                                     [] kind = "text" -> "lockGet"
                                     [] OTHER -> "reply"]
    /\ UNCHANGED <<now, dedup, lock, hookFrame>>

(* await bucket.put(dedupeKey, '1'), then the branch on what the update    *)
(* holds: a callback_query is answered outside the try; a message enters   *)
(* the try, where the allowlist, the text and the '/' prefix are tested.   *)
Mark(d) ==
    /\ dl[d].pc = "mark"
    /\ dedup' = dedup \cup {dl[d].uid}
    /\ \E kind \in Kinds :
        dl' = [dl EXCEPT ![d].kind = kind,
                         ![d].effects = @ \cup {"store"},
                         ![d].pc = CASE kind = "callback" -> "callback"
                                     [] kind = "text" -> "lockGet"
                                     [] OTHER -> "reply"]
    /\ UNCHANGED <<now, lock, hookFrame>>

(* answerCallbackQuery / handleFeedbackCallback, then return: no finally.  *)
Callback(d) ==
    /\ dl[d].pc = "callback"
    /\ \E feedback \in BOOLEAN :
        dl' = [dl EXCEPT ![d] = Ended([@ EXCEPT
                 !.effects = @ \cup (IF feedback THEN {"store", "send"}
                                     ELSE {"send"})], "done")]
    /\ UNCHANGED <<now, dedup, lock, hookFrame>>

(* Inside the try: the reply to an unauthorized user or to a non-text      *)
(* message, or handleCommand; each returns through the finally block.      *)
Reply(d) ==
    /\ dl[d].pc = "reply"
    /\ dl' = [dl EXCEPT ![d].pc = "finally", ![d].effects = @ \cup {"send"}]
    /\ UNCHANGED <<now, dedup, lock, hookFrame>>

(* A turn of another delivery runs under a lock it wrote less than the TTL *)
(* ago.                                                                    *)
TurnInFlight(d) ==
    \E e \in Deliveries \ {d} :
        dl[e].pc = "turn" /\ now - dl[e].lockTs < LOCK_TTL_MS

(* const existingLock = await bucket.get(chatLockKey) and the TTL test;    *)
(* the skip returns through the finally block. sawStale and sawTurn record *)
(* what was true at this read.                                             *)
LockGet(d) ==
    /\ dl[d].pc = "lockGet"
    /\ LET stale == lock # NoLock /\ now - lock >= LOCK_TTL_MS
       IN IF lock # NoLock /\ LockIsLive(now - lock)
          THEN dl' = [dl EXCEPT ![d].pc = "finally", ![d].skipped = TRUE,
                                ![d].sawStale = stale,
                                ![d].sawTurn = TurnInFlight(d)]
          ELSE dl' = [dl EXCEPT ![d].pc = "lockPut", ![d].sawStale = stale,
                                ![d].sawTurn = TurnInFlight(d)]
    /\ UNCHANGED <<now, dedup, lock, hookFrame>>

(* await bucket.put(chatLockKey, JSON.stringify({ timestamp: Date.now() })) *)
LockPut(d) ==
    /\ dl[d].pc = "lockPut"
    /\ lock' = now
    /\ dl' = [dl EXCEPT ![d].pc = "turn", ![d].acquired = TRUE,
                        ![d].lockTs = now, ![d].effects = @ \cup {"store"}]
    /\ UNCHANGED <<now, dedup, hookFrame>>

(* sendChatAction, loadConversation, buildSystemPrompt and callClaude:     *)
(* the turn returns (also when exhausted), with or without tool runs, or   *)
(* the model service or the store throws.                                  *)
Turn(d) ==
    /\ dl[d].pc = "turn"
    /\ \E outcome \in {"ok", "tools", "throw"} :
        dl' = [dl EXCEPT
                 ![d].pc = IF outcome = "throw" THEN "catch" ELSE "save",
                 ![d].effects = @ \cup (IF outcome = "tools"
                                        THEN {"send", "model", "tool"}
                                        ELSE {"send", "model"})]
    /\ UNCHANGED <<now, dedup, lock, hookFrame>>

(* The tool log put, saveConversation and the reply; any of them may throw. *)
Save(d) ==
    /\ dl[d].pc = "save"
    /\ \E throws \in BOOLEAN :
        dl' = [dl EXCEPT ![d].pc = IF throws THEN "catch" ELSE "finally",
                         ![d].effects = @ \cup {"store", "send"}]
    /\ UNCHANGED <<now, dedup, lock, hookFrame>>

(* catch (err): telegram.sendMessage(chatId, error).catch(...) *)
Catch(d) ==
    /\ dl[d].pc = "catch"
    /\ dl' = [dl EXCEPT ![d].pc = "finally", ![d].effects = @ \cup {"send"}]
    /\ UNCHANGED <<now, dedup, lock, hookFrame>>

FinallyKeepsLock(d) ==
    /\ dl[d].pc = "finally"
    /\ dl' = [dl EXCEPT ![d] = Ended(@, "done")]
    /\ UNCHANGED <<now, dedup, lock, hookFrame>>

(* finally: await bucket.delete(chatLockKey).catch(() => {}): the delete   *)
(* removes the record, or fails at the store and the failure is dropped.   *)
Finally(d) ==
    /\ dl[d].pc = "finally"
    /\ \E deleted \in BOOLEAN :
        /\ lock' = IF deleted THEN NoLock ELSE lock
        /\ dl' = [dl EXCEPT ![d] = Ended([@ EXCEPT
                    !.deleteFailed = dl[d].acquired /\ ~deleted,
                    !.effects = @ \cup (IF deleted THEN {"store"} ELSE {})],
                    "done")]
    /\ UNCHANGED <<now, dedup, hookFrame>>

(* The worker is killed while the request is in flight (webhook.ts:146):   *)
(* nothing after the current await runs, the finally block included.       *)
Crash(d) ==
    /\ dl[d].pc \notin {"idle", "done", "crashed"}
    /\ dl' = [dl EXCEPT ![d] = Ended(@, "crashed")]
    /\ UNCHANGED <<now, dedup, lock, hookFrame>>

(* Time is read only to compare it with the lock record's timestamp, so   *)
(* only the time that passes while a lock record exists is counted.        *)
HookTick ==
    /\ now < MaxTime
    /\ lock # NoLock
    /\ now' = now + 1
    /\ UNCHANGED <<dedup, lock, dl, hookFrame>>

HookNext ==
    \/ \E d \in Deliveries : Arrive(d)
    \/ \E d \in Deliveries : HeadCheck(d)
    \/ \E d \in Deliveries : Mark(d)
    \/ \E d \in Deliveries : Callback(d)
    \/ \E d \in Deliveries : Reply(d)
    \/ \E d \in Deliveries : LockGet(d)
    \/ \E d \in Deliveries : LockPut(d)
    \/ \E d \in Deliveries : Turn(d)
    \/ \E d \in Deliveries : Save(d)
    \/ \E d \in Deliveries : Catch(d)
    \/ \E d \in Deliveries : Finally(d)
    \/ \E d \in Deliveries : Crash(d)
    \/ HookTick

SpecHook == HookInit /\ [][HookNext]_vars

----------------------------------------------------------------------------
(* Properties of processUpdate, checked under SpecHook.                    *)

InFlight(d) == dl[d].pc \notin {"idle", "done", "crashed"}

(* C4: a processUpdate invocation that begins when the dedup marker of its *)
(* update_id is already written returns with no side effect: no store      *)
(* write, no outbound message, no model-service call, no tool execution.   *)
C4_DuplicateHasNoEffect ==
    \A d \in Deliveries : dl[d].begunAfterMark => dl[d].effects = {}

(* C4's case: a second delivery of an update id whose first delivery had   *)
(* written the marker has returned.                                        *)
C4_Witness ==
    \E d, e \in Deliveries :
        /\ d # e
        /\ dl[d].uid = dl[e].uid
        /\ dl[d].begunAfterMark
        /\ dl[d].pc = "done"
        /\ dl[e].effects # {}

(* C5: two deliveries of one chat never both run the orchestration loop    *)
(* while the lock written by the earlier one is younger than the TTL.      *)
(* Stated for a later delivery whose lock check came while the earlier     *)
(* turn was already running under its lock: two checks that overlap before *)
(* either write are the window the best-effort lock leaves open.           *)
C5_OneTurnPerLiveLock ==
    \A d, e \in Deliveries :
        (d # e /\ dl[d].pc = "turn" /\ dl[e].pc = "turn"
              /\ dl[d].lockTs <= dl[e].lockTs /\ dl[e].sawTurn)
            => now - dl[d].lockTs >= LOCK_TTL_MS

C7_StaleLockIsAbsent ==
    \A d \in Deliveries :
        dl[d].sawStale =>
            /\ ~dl[d].skipped
            /\ dl[d].pc \in {"lockPut", "turn", "save", "catch", "finally"}
            /\ dl[d].pc # "lockPut" => (dl[d].acquired /\ dl[d].lockTs > NoLock)

(* C7's case: a turn crashed holding the lock, and a later message found   *)
(* the stale record and is being processed under its own lock.             *)
C7_Witness ==
    \E c, d \in Deliveries :
        /\ dl[c].pc = "crashed"
        /\ dl[c].acquired
        /\ dl[d].sawStale
        /\ dl[d].pc = "save"
        /\ "model" \in dl[d].effects

----------------------------------------------------------------------------
(* callClaude: the tool-use loop of one turn, against a model service that *)
(* answers each request with any status and any body.                      *)

MARKER == "I ran out of time processing your request. Here is what I completed so far."

NO_RESPONSE == "(No response)"

(* extractText(data.content): the empty string when the response holds no  *)
(* text block.                                                             *)
Texts == {"", "a", "b"}

StopReasons == {"end_turn", "tool_use", "max_tokens"}

(* The clock saturates one tick past the deadline: elapsed time is only    *)
(* ever compared with WALL_CLOCK_TIMEOUT_MS.                               *)
ClockCap == WALL_CLOCK_TIMEOUT_MS + 1

After(clk, delay) == IF clk + delay > ClockCap THEN ClockCap ELSE clk + delay

NoResult ==
    [kind |-> "none", text |-> "", toolCalls |-> 0, iterations |-> 0,
     exhausted |-> FALSE, error |-> "none", detail |-> <<>>]

LoopGuardInclusive(iterations) == iterations <= MAX_TOOL_ITERATIONS

(* while (iterations < MAX_TOOL_ITERATIONS) *)
LoopGuard(iterations) == iterations < MAX_TOOL_ITERATIONS

DeadlineNever(elapsed) == FALSE

(* if (elapsed > WALL_CLOCK_TIMEOUT_MS) break *)
DeadlinePassed(elapsed) == elapsed > WALL_CLOCK_TIMEOUT_MS

ExhaustionThrows(lastText, toolCalls, iterations) ==
    [kind |-> "threw", text |-> "", toolCalls |-> 0,
     iterations |-> iterations, exhausted |-> TRUE, error |-> "exhausted",
     detail |-> <<>>]

(* The return after the loop: text: lastText || 'I ran out of time ...',   *)
(* toolCalls, iterations. toolCalls is the number of ToolCallRecords.      *)
ExhaustedResult(lastText, toolCalls, iterations) ==
    [kind |-> "returned", text |-> IF lastText # "" THEN lastText ELSE MARKER,
     toolCalls |-> toolCalls, iterations |-> iterations, exhausted |-> TRUE,
     error |-> "none", detail |-> <<>>]

(* The return inside the loop: text: lastText || '(No response)' *)
FinalResult(lastText, toolCalls, iterations) ==
    [kind |-> "returned",
     text |-> IF lastText # "" THEN lastText ELSE NO_RESPONSE,
     toolCalls |-> toolCalls, iterations |-> iterations,
     exhausted |-> FALSE, error |-> "none", detail |-> <<>>]

Thrown(error, iterations) ==
    [kind |-> "threw", text |-> "", toolCalls |-> 0,
     iterations |-> iterations, exhausted |-> FALSE, error |-> error,
     detail |-> <<>>]

(* The response statuses told apart by fetchWithRetry and callClaude: ok,  *)
(* 429, 401 and two other failures.                                        *)
Statuses == {200, 401, 429, 500, 503}

(* response.text() of a failed response. *)
Bodies == {"overloaded", "bad request"}

ErrorOfGeneric(status, body, iterations) ==
    IF status = 200 THEN Thrown("body_error", iterations)
    ELSE [Thrown("api_error", iterations) EXCEPT !.detail = <<status, body>>]

(* What is thrown for a response that is not retried: fetchWithRetry's     *)
(* three errors for a non-ok status, callClaude's for an ok response whose *)
(* body holds an error field.                                              *)
ErrorOf(status, body, iterations) ==
    CASE status = 429 -> Thrown("rate_limited", iterations)
      [] status = 401 -> Thrown("invalid_key", iterations)
      [] status = 200 -> Thrown("body_error", iterations)
      [] OTHER -> [Thrown("api_error", iterations)
                      EXCEPT !.detail = <<status, body>>]

(* The callers of callClaude and the retryDelays option each one passes:   *)
(* processUpdate, runScheduledTask and the analyze route pass none, so      *)
(* fetchWithRetry takes its default; "explicit" is a call that passes      *)
(* CRON_RETRY_DELAYS.                                                      *)
Callers == {"processUpdate", "runScheduledTask", "explicit"}

RetryDelaysOf(caller) ==
    IF caller = "explicit" THEN CRON_RETRY_DELAYS ELSE DEFAULT_RETRY_DELAYS

(* The messages argument: runScheduledTask passes the prompt alone,        *)
(* processUpdate the trimmed history and the new message.                  *)
MessagesOf(caller) ==
    IF caller = "processUpdate"
    THEN {<<"user">>, <<"user", "assistant", "user">>}
    ELSE {<<"user">>}

CallerAliased(messages, pushed) == messages \o pushed

(* const conversationMessages = [...messages]: a push to the copy leaves   *)
(* the caller's array as it was.                                           *)
CallerAfterPush(messages, pushed) == messages

TerminalIgnoresExecutor(stop, executeTools) == stop # "tool_use"

(* if (data.stop_reason !== 'tool_use' || !options?.executeTools) return   *)
Terminal(stop, executeTools) == stop # "tool_use" \/ ~executeTools

(* callClaude up to the loop: startTime = Date.now(), with or without an   *)
(* executeTools callback, with the default or the cron retry delays.       *)
LoopInit ==
    /\ SelectIdle
    /\ HistoryIdle
    /\ now = 0
    /\ GateIdle
    /\ HookIdle
    /\ ToolsIdle
    /\ RegistryIdle
    /\ \E hasExec \in BOOLEAN, caller \in Callers :
        \E messages \in MessagesOf(caller) :
        lp = [pc |-> "head", iterations |-> 0, clk |-> 0, attempt |-> 0,
              calls |-> 0, lastText |-> "", toolCalls |-> 0,
              executeTools |-> hasExec, caller |-> caller,
              retryDelays |-> RetryDelaysOf(caller), blk |-> 0,
              result |-> NoResult, status |-> 0, stop |-> "none",
              messages |-> messages, conversationMessages |-> messages,
              lateRequest |-> FALSE, conversationSaved |-> FALSE,
              replySent |-> FALSE, errorSent |-> FALSE]

(* The loop head: the iteration cap, the deadline check, the pacing sleep, *)
(* iterations++, and fetchWithRetry's first fetch. lateRequest records a   *)
(* request sent after the deadline.                                        *)
LoopHead ==
    /\ lp.pc = "head"
    /\ IF ~LoopGuard(lp.iterations) \/ DeadlinePassed(lp.clk)
       THEN lp' = [lp EXCEPT !.pc = "done",
                     !.result = ExhaustedResult(lp.lastText, lp.toolCalls,
                                               lp.iterations)]
       ELSE LET sent == IF lp.iterations > 0
                        THEN After(lp.clk, PACING_DELAY_MS) ELSE lp.clk
            IN lp' = [lp EXCEPT !.pc = "request", !.clk = sent,
                        !.iterations = @ + 1, !.calls = @ + 1, !.attempt = 0,
                        !.lateRequest = @ \/ sent > WALL_CLOCK_TIMEOUT_MS]
    /\ UNCHANGED loopFrame

Retry429NoWait ==
    /\ lp.pc = "request"
    /\ lp.attempt < Len(lp.retryDelays)
    /\ lp' = [lp EXCEPT !.attempt = @ + 1, !.status = 429]
    /\ UNCHANGED loopFrame

(* fetchWithRetry: status 429 before the last attempt: wait                *)
(* retryDelays[attempt], then fetch again.                                 *)
Retry429 ==
    /\ lp.pc = "request"
    /\ lp.attempt < Len(lp.retryDelays)
    /\ LET sent == After(lp.clk, lp.retryDelays[lp.attempt + 1])
       IN lp' = [lp EXCEPT !.attempt = @ + 1, !.clk = sent, !.status = 429,
                   !.lateRequest = @ \/ sent > WALL_CLOCK_TIMEOUT_MS]
    /\ UNCHANGED loopFrame

(* fetchWithRetry: a non-ok response that is not retried throws; so does a *)
(* 200 whose body holds an error field (callClaude: if (data.error)).      *)
HttpError ==
    /\ lp.pc = "request"
    /\ \E status \in Statuses, body \in Bodies :
        /\ status = 429 => lp.attempt = Len(lp.retryDelays)
        /\ lp' = [lp EXCEPT !.pc = "threw", !.status = status,
                    !.result = ErrorOf(status, body, lp.iterations)]
    /\ UNCHANGED loopFrame

(* An ok response: its text becomes lastText when not empty; the turn ends *)
(* unless stop_reason is tool_use and an executor was supplied; otherwise  *)
(* the tool_use blocks are executed in turn.                               *)
Response ==
    /\ lp.pc = "request"
    /\ \E stop \in StopReasons, text \in Texts, n \in 0..MaxBlocks :
        LET last == IF text # "" THEN text ELSE lp.lastText
            pushed == IF n = 0 THEN <<"assistant", "tool_results">>
                      ELSE <<"assistant">>
        IN IF Terminal(stop, lp.executeTools)
           THEN /\ n = 0
                /\ lp' = [lp EXCEPT !.pc = "done", !.lastText = last,
                            !.status = 200, !.stop = stop,
                            !.result = FinalResult(last, lp.toolCalls,
                                                     lp.iterations)]
           ELSE lp' = [lp EXCEPT !.lastText = last, !.blk = n,
                         !.status = 200, !.stop = stop,
                         !.conversationMessages = @ \o pushed,
                         !.messages = CallerAfterPush(@, pushed),
                         !.pc = IF n = 0 THEN "head" ELSE "tools"]
    /\ UNCHANGED loopFrame

(* for (const block of toolUseBlocks): await options.executeTools(block)   *)
(* and toolCalls.push; after the last one the results are appended and     *)
(* onToolIteration runs. The callback rejects when executeTool's           *)
(* savePendingAction fails at the store.                                   *)
ToolStep ==
    /\ lp.pc = "tools"
    /\ \E rejects \in BOOLEAN :
        IF rejects
        THEN lp' = [lp EXCEPT !.pc = "threw",
                      !.result = Thrown("dispatch_error", lp.iterations)]
        ELSE LET pushed == IF lp.blk = 1 THEN <<"tool_results">> ELSE <<>>
             IN lp' = [lp EXCEPT !.blk = @ - 1, !.toolCalls = @ + 1,
                         !.conversationMessages = @ \o pushed,
                         !.messages = CallerAfterPush(@, pushed),
                         !.pc = IF lp.blk = 1 THEN "head" ELSE "tools"]
    /\ UNCHANGED loopFrame

(* processUpdate after callClaude has returned: the tool log put, the push *)
(* of the user and assistant messages with saveConversation, and the       *)
(* reply; the first of them that throws leads to the catch block.          *)
TurnReturned ==
    /\ lp.pc = "done"
    /\ \E throws \in {"none", "log", "save", "send"} :
        lp' = [lp EXCEPT
                 !.pc = IF throws = "none" THEN "finished" ELSE "catch",
                 !.conversationSaved = throws \in {"none", "send"},
                 !.replySent = throws = "none"]
    /\ UNCHANGED loopFrame

TurnCatchSilent ==
    /\ lp.pc \in {"threw", "catch"}
    /\ lp' = [lp EXCEPT !.pc = "finished"]
    /\ UNCHANGED loopFrame

(* processUpdate's catch block, entered when callClaude or a later step    *)
(* threw: telegram.sendMessage(chatId, 'Sorry, I encountered an error:     *)
(* ...'), a failure of which is logged and dropped.                        *)
TurnCatch ==
    /\ lp.pc \in {"threw", "catch"}
    /\ lp' = [lp EXCEPT !.pc = "finished", !.errorSent = TRUE]
    /\ UNCHANGED loopFrame

(* Time passes while callClaude awaits: the model service, a tool, or      *)
(* onToolIteration.                                                        *)
LoopTick ==
    /\ \/ lp.pc \in {"request", "tools"}
       \/ lp.pc = "head" /\ lp.iterations > 0
    /\ lp.clk < ClockCap
    /\ lp' = [lp EXCEPT !.clk = @ + 1]
    /\ UNCHANGED loopFrame

LoopNext ==
    \/ LoopHead
    \/ Retry429
    \/ HttpError
    \/ Response
    \/ ToolStep
    \/ LoopTick
    \/ TurnReturned
    \/ TurnCatch

SpecLoop == LoopInit /\ [][LoopNext]_vars

(* Every fetch is answered: the model service returns some response to     *)
(* each request that was sent.                                             *)
SpecLoopFair ==
    /\ LoopInit
    /\ [][LoopNext]_vars
    /\ WF_vars(Retry429 \/ HttpError \/ Response)

----------------------------------------------------------------------------
(* Properties of callClaude, checked under SpecLoop.                       *)

(* C8: in one callClaude turn the number of model-service calls is never   *)
(* more than MAX_TOOL_ITERATIONS.                                          *)
C8_CallsWithinCap == lp.calls <= MAX_TOOL_ITERATIONS

(* C8's case: a turn that used up the iteration cap.                       *)
C8_Witness ==
    /\ lp.pc = "done"
    /\ lp.result.exhausted
    /\ lp.calls = MAX_TOOL_ITERATIONS

(* C9 as stated: no model-service request is sent at a moment when the     *)
(* elapsed time exceeds WALL_CLOCK_TIMEOUT_MS.                             *)
C9_NoRequestPastDeadline == ~lp.lateRequest

(* C9 amended: no iteration starts past the deadline: a model-service call *)
(* begins only from a loop head reached with elapsed time at most          *)
(* WALL_CLOCK_TIMEOUT_MS, and a loop head reached later than that returns  *)
(* at once with no further call, so a deadline that expires during the     *)
(* first iteration leaves exactly one call.                                *)
C9_NoIterationPastDeadline ==
    [][/\ lp'.calls # lp.calls =>
            (lp.pc = "head" /\ lp.clk <= WALL_CLOCK_TIMEOUT_MS)
       /\ (lp.pc = "head" /\ lp.clk > WALL_CLOCK_TIMEOUT_MS) =>
            /\ lp'.pc = "done"
            /\ lp'.result.exhausted
            /\ lp'.calls = lp.calls
            /\ lp.iterations = 1 => lp'.calls = 1]_vars

(* C9's case: the deadline expired during the first iteration and the turn *)
(* returned after one call.                                                *)
C9_Witness ==
    /\ lp.pc = "done"
    /\ lp.result.exhausted
    /\ lp.clk > WALL_CLOCK_TIMEOUT_MS
    /\ lp.calls = 1

(* C10: whenever callClaude ends by exhaustion, the returned text carries  *)
(* the "ran out of time" marker.                                           *)
C10_ExhaustionIsMarked ==
    (lp.pc = "done" /\ lp.result.exhausted) => lp.result.text = MARKER

(* C11: reaching the iteration cap or the wall-clock deadline raises no    *)
(* error: callClaude returns a result normally, which holds the latest     *)
(* text accumulated and every ToolCallRecord collected in the turn.        *)
C11_ExhaustionReturnsNormally ==
    lp.result.exhausted =>
        /\ lp.result.kind = "returned"
        /\ lp.result.toolCalls = lp.toolCalls
        /\ lp.result.iterations = lp.iterations
        /\ lp.lastText # "" => lp.result.text = lp.lastText

(* C11's case: an exhausted turn that had accumulated text and tool call   *)
(* records, by the cap and by the deadline.                                *)
C11_Witness ==
    /\ lp.pc = "done"
    /\ lp.result.exhausted
    /\ lp.lastText # ""
    /\ lp.toolCalls > 0
    /\ lp.iterations < MAX_TOOL_ITERATIONS
    /\ lp.clk > WALL_CLOCK_TIMEOUT_MS

(* The model-service errors: a 429 after the retries, a 401, another       *)
(* non-ok status, an error field in the body.                              *)
ServiceErrors == {"rate_limited", "invalid_key", "api_error", "body_error"}

(* C19: an error from the model service propagates out of callClaude and   *)
(* ends the turn: after it no model-service call is made and no tool is    *)
(* executed, the conversation is not saved, and the error message is sent  *)
(* to the user before processUpdate finishes.                              *)
C19_ServiceErrorEndsTurn ==
    [][(lp.result.kind = "threw" /\ lp.result.error \in ServiceErrors) =>
          /\ lp'.calls = lp.calls
          /\ lp'.attempt = lp.attempt
          /\ lp'.toolCalls = lp.toolCalls
          /\ lp'.result = lp.result
          /\ ~lp'.conversationSaved
          /\ ~lp'.replySent
          /\ lp'.pc = "finished" => lp'.errorSent]_vars

(* C19's case: a turn that had executed tools, then met a model-service    *)
(* error, and has finished.                                                *)
C19_Witness ==
    /\ lp.pc = "finished"
    /\ lp.result.kind = "threw"
    /\ lp.result.error \in ServiceErrors
    /\ lp.toolCalls > 0
    /\ lp.errorSent

----------------------------------------------------------------------------
(* The tool block of one callClaude iteration (index.ts:186-230) with the  *)
(* dispatch of each block by executeTool: a response with stop_reason      *)
(* tool_use has arrived and an executor callback was supplied.             *)

RECURSIVE Injective(_)
(* Block ids are distinct. *)
Injective(s) ==
    IF s = <<>> THEN TRUE
    ELSE /\ \A i \in 2..Len(s) : s[i] # s[1]
         /\ Injective(Tail(s))

BlockIds(n) == {s \in [1..n -> 1..n] : Injective(s)}

(* data.content.filter(b => b.type === 'tool_use'): n blocks, each with    *)
(* its id, the tool it names and its input (the input is told apart by the *)
(* block's id).                                                            *)
ToolUseBlocks ==
    UNION {{[i \in 1..n |-> [id |-> ids[i], name |-> names[i]]] :
                ids \in BlockIds(n), names \in [1..n -> RequestableTools]} :
           n \in 0..MaxToolUse}

Ids_(blocks) == [i \in 1..Len(blocks) |-> blocks[i].id]

(* crypto.randomUUID(): an id no call has returned before. *)
FreshId == Cardinality(usedIds) + 1

(* toolCalls.push({ toolName, input, result, isError: output.result.isError ?? false, ... }) *)
ToolCallRecord(block, output) ==
    [toolName |-> block.name, input |-> block.id,
     result |-> output.result, isError |-> output.isError,
     wasConfirmationGated |-> output.wasConfirmationGated]

(* toolResults.push({ type: 'tool_result', tool_use_id: block.id, ... }) *)
ToolResultBlock(block, output) ==
    [tool_use_id |-> block.id, content |-> output.result,
     is_error |-> output.isError]

ToolsInit ==
    /\ SelectIdle
    /\ HistoryIdle
    /\ now = 0
    /\ GateIdle
    /\ HookIdle
    /\ LoopIdle
    /\ RegistryIdle
    /\ \E blocks \in ToolUseBlocks :
        tb = [pc |-> "begin", toolUseBlocks |-> blocks, idx |-> 1,
              toolCalls |-> <<>>, pendingActions |-> <<>>,
              toolResults |-> <<>>, conversationMessages |-> <<>>,
              events |-> <<>>, cause |-> "none"]

(* conversationMessages.push({ role: 'assistant', content: data.content }) *)
(* and const toolResults = [].                                             *)
ToolsBegin ==
    /\ tb.pc = "begin"
    /\ tb' = [tb EXCEPT !.pc = "next",
                !.conversationMessages = Append(@,
                    [role |-> "assistant", content |-> Ids_(tb.toolUseBlocks)])]
    /\ UNCHANGED <<store, usedIds, saved, execLog, toolsFrame>>

ToolCallLast ==
    /\ tb.pc = "next"
    /\ tb.idx <= Len(tb.toolUseBlocks)
    /\ LET last == Len(tb.toolUseBlocks) + 1 - tb.idx
       IN tb' = [tb EXCEPT !.pc = "await",
                   !.toolUseBlocks = [i \in 1..Len(@) |->
                        IF i = tb.idx THEN @[last]
                        ELSE IF i = last THEN @[tb.idx] ELSE @[i]],
                   !.events = Append(@, <<"start", tb.toolUseBlocks[last].id>>)]
    /\ UNCHANGED <<store, usedIds, saved, execLog, toolsFrame>>

(* for (const block of toolUseBlocks): options.executeTools(block) is      *)
(* called for the next block and awaited.                                  *)
ToolCall ==
    /\ tb.pc = "next"
    /\ tb.idx <= Len(tb.toolUseBlocks)
    /\ tb' = [tb EXCEPT !.pc = "await",
                !.events = Append(@, <<"start", tb.toolUseBlocks[tb.idx].id>>)]
    /\ UNCHANGED <<store, usedIds, saved, execLog, toolsFrame>>

(* The records callClaude pushes once executeTools(block) has resolved     *)
(* with output.                                                            *)
Pushed(block, output) ==
    [tb EXCEPT !.pc = "next", !.idx = @ + 1,
        !.toolCalls = Append(@, ToolCallRecord(block, output)),
        !.pendingActions =
            IF output.wasConfirmationGated /\ output.pendingActionId # 0
            THEN Append(@, [id |-> output.pendingActionId,
                            toolName |-> block.name])
            ELSE @,
        !.toolResults = Append(@, ToolResultBlock(block, output)),
        !.events = Append(@, <<"end", block.id>>)]

ExecutorThrowPropagates(outcome) == outcome = "throw"

(* executeTool's try/catch around tool.execute: nothing the executor does  *)
(* leaves executeTool as an exception.                                     *)
ExecutorThrowEscapes(outcome) == FALSE

(* executeTool(block, toolCtx) resolves or rejects: an unknown tool is an  *)
(* error result; a tool that requires confirmation is saved as a pending   *)
(* action (the put may fail, and the failure is not caught); any other     *)
(* tool is executed inside try/catch. Then callClaude pushes the records.  *)
ToolReturn ==
    /\ tb.pc = "await"
    /\ LET block == tb.toolUseBlocks[tb.idx]
       IN IF block.name \notin RegisteredTools
          THEN /\ tb' = Pushed(block, [NoOutput EXCEPT
                            !.result = "Unknown tool", !.isError = TRUE])
               /\ UNCHANGED <<store, usedIds, saved, execLog>>
          ELSE IF RequiresConfirmation(block.name)
          THEN \E putFails \in BOOLEAN :
               IF putFails
               THEN /\ usedIds' = usedIds \cup {FreshId}
                    /\ tb' = [tb EXCEPT !.pc = "threw", !.cause = "store"]
                    /\ UNCHANGED <<store, saved, execLog>>
               ELSE LET rec == [id |-> FreshId, toolName |-> block.name,
                                input |-> block.id, createdAt |-> now,
                                expiresAt |-> ExpiresAt(now)]
                    IN /\ usedIds' = usedIds \cup {FreshId}
                       /\ store' = store \cup {rec}
                       /\ saved' = saved \cup {rec}
                       /\ tb' = Pushed(block, [NoOutput EXCEPT
                                    !.result = "queued",
                                    !.wasConfirmationGated = TRUE,
                                    !.pendingActionId = FreshId])
                       /\ UNCHANGED execLog
          ELSE \E outcome \in ExecutorOutcomes :
               /\ execLog' = execLog \cup
                      {[by |-> 0, id |-> 0, toolName |-> block.name,
                        input |-> block.id, outcome |-> outcome]}
               /\ IF ExecutorThrowEscapes(outcome)
                  THEN tb' = [tb EXCEPT !.pc = "threw", !.cause = "executor"]
                  ELSE tb' = Pushed(block, [NoOutput EXCEPT
                                !.result = ResultOf(outcome).result,
                                !.isError = ResultOf(outcome).isError])
               /\ UNCHANGED <<store, usedIds, saved>>
    /\ UNCHANGED toolsFrame

(* After the last block: conversationMessages.push({ role: 'user',         *)
(* content: toolResults }) and await options.onToolIteration(), whose      *)
(* sendChatAction rejects when the network fails; otherwise the loop       *)
(* continues at its head.                                                  *)
ToolsEnd ==
    /\ tb.pc = "next"
    /\ tb.idx > Len(tb.toolUseBlocks)
    /\ \E notifyFails \in BOOLEAN :
        tb' = [tb EXCEPT
                 !.pc = IF notifyFails THEN "threw" ELSE "head",
                 !.cause = IF notifyFails THEN "notify" ELSE @,
                 !.conversationMessages = Append(@,
                     [role |-> "user", content |-> tb.toolResults])]
    /\ UNCHANGED <<store, usedIds, saved, execLog, toolsFrame>>

ToolsNext ==
    \/ ToolsBegin
    \/ ToolCall
    \/ ToolReturn
    \/ ToolsEnd

SpecTools == ToolsInit /\ [][ToolsNext]_vars

----------------------------------------------------------------------------
(* Properties of the tool block, checked under SpecTools.                  *)

(* The ids of the tool_use blocks in the order the response holds them:    *)
(* the content of the assistant message.                                   *)
Requested == tb.conversationMessages[1].content

IsPrefix(s, t) == Len(s) <= Len(t) /\ \A i \in 1..Len(s) : s[i] = t[i]

(* The ids of the executor invocations begun, in the order they began. *)
Started ==
    [k \in 1..((Len(tb.events) + 1) \div 2) |-> tb.events[2 * k - 1][2]]

(* C12: the n tool_use blocks of a response are dispatched one at a time   *)
(* in request order, each invocation ending before the next begins; the    *)
(* ToolCallRecords are appended in that order; and the block appends one   *)
(* assistant message followed by one user message holding the n results,   *)
(* whose tool_use_id are the requests' ids in the same order.              *)
C12_SequentialInOrder ==
    tb.pc # "begin" =>
        /\ \A k \in 1..Len(tb.events) :
              IF k % 2 = 1 THEN tb.events[k][1] = "start"
              ELSE tb.events[k] = <<"end", tb.events[k - 1][2]>>
        /\ IsPrefix(Started, Requested)
        /\ Len(tb.toolCalls) = Len(tb.events) \div 2
        /\ IsPrefix([i \in 1..Len(tb.toolCalls) |-> tb.toolCalls[i].input],
                    Requested)
        /\ tb.pc = "head" =>
              /\ Len(tb.conversationMessages) = 2
              /\ tb.conversationMessages[1].role = "assistant"
              /\ tb.conversationMessages[2].role = "user"
              /\ Len(tb.toolCalls) = Len(Requested)
              /\ [i \in 1..Len(tb.conversationMessages[2].content) |->
                     tb.conversationMessages[2].content[i].tool_use_id]
                 = Requested

(* C12's case: a response with three tool_use blocks whose ids are not in  *)
(* ascending order has been worked off.                                    *)
C12_Witness ==
    /\ tb.pc = "head"
    /\ Len(tb.toolCalls) = 3
    /\ Requested = <<2, 3, 1>>
    /\ Len(tb.conversationMessages[2].content) = 3

(* The executor run of this step threw. *)
ExecutorThrew == \E x \in execLog' \ execLog : x.outcome = "throw"

(* C13: an executor that throws yields a result with isError = TRUE and a  *)
(* ToolCallRecord with isError = TRUE; the loop goes on to the sibling     *)
(* blocks, no exit of the tool block by exception is caused by an          *)
(* executor, and the block ends at the loop head with one record for every *)
(* request.                                                                *)
C13_ExecutorFaultIsIsolated ==
    [][/\ ExecutorThrew =>
            /\ tb'.pc = "next"
            /\ tb'.idx = tb.idx + 1
            /\ Len(tb'.toolCalls) = Len(tb.toolCalls) + 1
            /\ tb'.toolCalls[Len(tb'.toolCalls)].isError
            /\ tb'.toolResults[Len(tb'.toolResults)].is_error
       /\ tb'.pc = "threw" => tb'.cause \in {"store", "notify"}
       /\ tb'.pc = "head" => Len(tb'.toolCalls) = Len(tb'.toolUseBlocks)]_vars

(* C13's case: the first of three executors threw, its siblings were       *)
(* executed after it, and the tool block ended at the loop head.           *)
C13_Witness ==
    /\ tb.pc = "head"
    /\ Len(tb.toolCalls) = 3
    /\ tb.toolCalls[1].result = "Tool error"
    /\ tb.toolCalls[1].isError
    /\ ~tb.toolCalls[2].isError
    /\ \E x \in execLog : x.outcome = "throw" /\ x.input = tb.toolCalls[1].input
    /\ \E x \in execLog : x.outcome = "ok" /\ x.input = tb.toolCalls[3].input

----------------------------------------------------------------------------
(* The tool registry (tools/registry.ts): registerTool, getToolDefinitions, *)
(* getFilteredToolDefinitions, executeTool and executeToolDirect over the  *)
(* registry initializeTools has filled. Texts are sequences of characters. *)

Range(s) == {s[i] : i \in 1..Len(s)}

(* const TOOL_CATEGORIES *)
TOOL_CATEGORIES ==
    [core |->
        <<"web_search", "fetch_url", "list_skills", "read_skill",
          "send_media_to_chat">>,
     skills |->
        <<"update_skill", "read_soul", "update_soul">>,
     learning |->
        <<"get_feedback_summary", "analyze_and_improve">>,
     media |->
        <<"generate_image", "generate_image_fast", "generate_graphic",
          "generate_video">>,
     twitter |->
        <<"post_tweet", "reply_to_tweet", "delete_tweet", "get_mentions",
          "get_tweet_analytics">>,
     youtube |->
        <<"get_channel_stats", "list_youtube_videos", "get_video_stats",
          "update_youtube_video", "reply_to_youtube_comment">>,
     instagram |->
        <<"get_instagram_profile", "get_instagram_media",
          "get_instagram_insights", "create_instagram_post",
          "reply_to_instagram_comment">>,
     linkedin |->
        <<"get_linkedin_profile", "get_linkedin_analytics",
          "create_linkedin_post", "delete_linkedin_post">>,
     moltbook |->
        <<"moltbook_get_feed", "moltbook_get_posts",
          "moltbook_create_post", "moltbook_comment", "moltbook_upvote",
          "moltbook_search", "moltbook_check_dms", "moltbook_get_post",
          "moltbook_list_submolts">>,
     polymarket |->
        <<"polymarket_scan_markets", "polymarket_search_markets",
          "polymarket_get_market", "polymarket_get_positions",
          "polymarket_get_portfolio", "polymarket_get_balance",
          "polymarket_get_orders">>]

(* const CATEGORY_KEYWORDS *)
CATEGORY_KEYWORDS ==
    [twitter |->
        <<<<"t", "w", "i", "t", "t", "e", "r">>,
          <<"t", "w", "e", "e", "t">>, <<"t", "w", "e", "e", "t", "s">>,
          <<"x", ".", "c", "o", "m">>>>,
     youtube |->
        <<<<"y", "o", "u", "t", "u", "b", "e">>, <<"y", "t">>,
          <<"v", "i", "d", "e", "o">>,
          <<"c", "h", "a", "n", "n", "e", "l">>>>,
     instagram |->
        <<<<"i", "n", "s", "t", "a", "g", "r", "a", "m">>, <<"i", "g">>,
          <<"i", "n", "s", "t", "a">>, <<"r", "e", "e", "l">>,
          <<"r", "e", "e", "l", "s">>>>,
     linkedin |->
        <<<<"l", "i", "n", "k", "e", "d", "i", "n">>>>,
     moltbook |->
        <<<<"m", "o", "l", "t", "b", "o", "o", "k">>,
          <<"m", "o", "l", "t">>>>,
     media |->
        <<<<"i", "m", "a", "g", "e">>, <<"p", "h", "o", "t", "o">>,
          <<"p", "i", "c", "t", "u", "r", "e">>,
          <<"g", "r", "a", "p", "h", "i", "c">>,
          <<"g", "e", "n", "e", "r", "a", "t", "e">>,
          <<"d", "e", "s", "i", "g", "n">>, <<"v", "i", "d", "e", "o">>,
          <<"t", "h", "u", "m", "b", "n", "a", "i", "l">>>>,
     skills |->
        <<<<"s", "k", "i", "l", "l">>, <<"s", "o", "u", "l">>,
          <<"p", "e", "r", "s", "o", "n", "a", "l", "i", "t", "y">>,
          <<"i", "d", "e", "n", "t", "i", "t", "y">>>>,
     learning |->
        <<<<"f", "e", "e", "d", "b", "a", "c", "k">>,
          <<"i", "m", "p", "r", "o", "v", "e">>,
          <<"l", "e", "a", "r", "n">>>>,
     polymarket |->
        <<<<"p", "o", "l", "y", "m", "a", "r", "k", "e", "t">>,
          <<"p", "r", "e", "d", "i", "c", "t", "i", "o", "n">>,
          <<"p", "o", "l", "y">>, <<"b", "e", "t">>,
          <<"w", "a", "g", "e", "r">>, <<"o", "d", "d", "s">>,
          <<"t", "r", "a", "d", "i", "n", "g">>,
          <<"m", "a", "r", "k", "e", "t", " ", "s", "c", "a", "n">>>>]

(* The registrations of initializeTools, in the order they are made: the   *)
(* tool's name, its executor (1: the one initializeTools registers) and    *)
(* its requiresConfirmation option.                                        *)
InitialRegistry ==
    <<[name |-> "list_skills", execute |-> 1, requiresConfirmation |-> FALSE],
      [name |-> "read_skill", execute |-> 1, requiresConfirmation |-> FALSE],
      [name |-> "update_skill", execute |-> 1, requiresConfirmation |-> TRUE],
      [name |-> "web_search", execute |-> 1, requiresConfirmation |-> FALSE],
      [name |-> "fetch_url", execute |-> 1, requiresConfirmation |-> FALSE],
      [name |-> "get_feedback_summary", execute |-> 1, requiresConfirmation |-> FALSE],
      [name |-> "analyze_and_improve", execute |-> 1, requiresConfirmation |-> FALSE],
      [name |-> "post_tweet", execute |-> 1, requiresConfirmation |-> TRUE],
      [name |-> "reply_to_tweet", execute |-> 1, requiresConfirmation |-> TRUE],
      [name |-> "delete_tweet", execute |-> 1, requiresConfirmation |-> TRUE],
      [name |-> "get_mentions", execute |-> 1, requiresConfirmation |-> FALSE],
      [name |-> "get_tweet_analytics", execute |-> 1, requiresConfirmation |-> FALSE],
      [name |-> "get_channel_stats", execute |-> 1, requiresConfirmation |-> FALSE],
      [name |-> "list_youtube_videos", execute |-> 1, requiresConfirmation |-> FALSE],
      [name |-> "get_video_stats", execute |-> 1, requiresConfirmation |-> FALSE],
      [name |-> "update_youtube_video", execute |-> 1, requiresConfirmation |-> TRUE],
      [name |-> "reply_to_youtube_comment", execute |-> 1, requiresConfirmation |-> TRUE],
      [name |-> "get_instagram_profile", execute |-> 1, requiresConfirmation |-> FALSE],
      [name |-> "get_instagram_media", execute |-> 1, requiresConfirmation |-> FALSE],
      [name |-> "get_instagram_insights", execute |-> 1, requiresConfirmation |-> FALSE],
      [name |-> "create_instagram_post", execute |-> 1, requiresConfirmation |-> TRUE],
      [name |-> "reply_to_instagram_comment", execute |-> 1, requiresConfirmation |-> TRUE],
      [name |-> "get_linkedin_profile", execute |-> 1, requiresConfirmation |-> FALSE],
      [name |-> "get_linkedin_analytics", execute |-> 1, requiresConfirmation |-> FALSE],
      [name |-> "create_linkedin_post", execute |-> 1, requiresConfirmation |-> TRUE],
      [name |-> "delete_linkedin_post", execute |-> 1, requiresConfirmation |-> TRUE],
      [name |-> "generate_video", execute |-> 1, requiresConfirmation |-> TRUE],
      [name |-> "generate_image", execute |-> 1, requiresConfirmation |-> TRUE],
      [name |-> "generate_graphic", execute |-> 1, requiresConfirmation |-> TRUE],
      [name |-> "generate_image_fast", execute |-> 1, requiresConfirmation |-> TRUE],
      [name |-> "send_media_to_chat", execute |-> 1, requiresConfirmation |-> FALSE],
      [name |-> "moltbook_get_feed", execute |-> 1, requiresConfirmation |-> FALSE],
      [name |-> "moltbook_get_posts", execute |-> 1, requiresConfirmation |-> FALSE],
      [name |-> "moltbook_create_post", execute |-> 1, requiresConfirmation |-> TRUE],
      [name |-> "moltbook_comment", execute |-> 1, requiresConfirmation |-> TRUE],
      [name |-> "moltbook_upvote", execute |-> 1, requiresConfirmation |-> FALSE],
      [name |-> "moltbook_search", execute |-> 1, requiresConfirmation |-> FALSE],
      [name |-> "moltbook_check_dms", execute |-> 1, requiresConfirmation |-> FALSE],
      [name |-> "moltbook_get_post", execute |-> 1, requiresConfirmation |-> FALSE],
      [name |-> "moltbook_list_submolts", execute |-> 1, requiresConfirmation |-> FALSE],
      [name |-> "polymarket_scan_markets", execute |-> 1, requiresConfirmation |-> FALSE],
      [name |-> "polymarket_search_markets", execute |-> 1, requiresConfirmation |-> FALSE],
      [name |-> "polymarket_get_market", execute |-> 1, requiresConfirmation |-> FALSE],
      [name |-> "polymarket_get_positions", execute |-> 1, requiresConfirmation |-> FALSE],
      [name |-> "polymarket_get_portfolio", execute |-> 1, requiresConfirmation |-> FALSE],
      [name |-> "polymarket_get_balance", execute |-> 1, requiresConfirmation |-> FALSE],
      [name |-> "polymarket_get_orders", execute |-> 1, requiresConfirmation |-> FALSE]>>

(* String.prototype.toLowerCase, one character at a time. *)
LowerChar(c) ==
    CASE c = "A" -> "a"
      [] c = "B" -> "b"
      [] c = "C" -> "c"
      [] c = "D" -> "d"
      [] c = "E" -> "e"
      [] c = "F" -> "f"
      [] c = "G" -> "g"
      [] c = "H" -> "h"
      [] c = "I" -> "i"
      [] c = "J" -> "j"
      [] c = "K" -> "k"
      [] c = "L" -> "l"
      [] c = "M" -> "m"
      [] c = "N" -> "n"
      [] c = "O" -> "o"
      [] c = "P" -> "p"
      [] c = "Q" -> "q"
      [] c = "R" -> "r"
      [] c = "S" -> "s"
      [] c = "T" -> "t"
      [] c = "U" -> "u"
      [] c = "V" -> "v"
      [] c = "W" -> "w"
      [] c = "X" -> "x"
      [] c = "Y" -> "y"
      [] c = "Z" -> "z"
      [] OTHER -> c

ToLowerCase(s) == [i \in 1..Len(s) |-> LowerChar(s[i])]

(* lower.includes(kw): kw is a contiguous part of lower. *)
Includes(lower, kw) ==
    \E i \in 0..(Len(lower) - Len(kw)) :
        \A j \in 1..Len(kw) : lower[i + j] = kw[j]

(* The context texts getFilteredToolDefinitions is called with. *)
Messages ==
    {<<"p", "o", "s", "t", " ", "a", " ", "t", "w", "e", "e", "t">>,
     <<"P", "o", "s", "t", " ", "a", " ", "T", "W", "E", "E", "T">>,
     <<"h", "e", "l", "l", "o", " ", "t", "h", "e", "r", "e">>,
     <<"b", "i", "g", " ", "n", "e", "w", "s">>,
     <<"m", "a", "k", "e", " ", "a", " ", "v", "i", "d", "e", "o">>,
     <<>>,
     <<"I", "m", "p", "r", "o", "v", "e", " ", "m", "y", " ", "s", "k", "i", "l", "l">>,
     <<"m", "a", "r", "k", "e", "t", " ", "s", "c", "a", "n">>}

(* Names registerTool is called with after initializeTools: a tool of the  *)
(* core category, a gated tool, and a name that is new.                    *)
RegisterNames == {"web_search", "post_tweet", "my_tool"}

(* Names the dispatch functions are called with. *)
DispatchNames == {"web_search", "post_tweet", "my_tool", "no_such_tool"}

(* The pool the usedToolNames argument is drawn from. *)
UsedPool == {"delete_tweet", "generate_video", "my_tool", "no_such_tool"}

Names(reg) == [i \in 1..Len(reg) |-> reg[i].name]

Has(reg, name) == \E i \in 1..Len(reg) : reg[i].name = name

(* registry.get(name), for a name the registry holds. *)
GetTool(reg, name) == reg[CHOOSE i \in 1..Len(reg) : reg[i].name = name]

MapSetFirstWins(reg, entry) ==
    IF Has(reg, entry.name) THEN reg ELSE Append(reg, entry)

(* registry.set(definition.name, {...}): Map.set replaces the value of a   *)
(* key the map holds, in place, and appends a new key.                     *)
MapSet(reg, entry) ==
    IF Has(reg, entry.name)
    THEN [i \in 1..Len(reg) |-> IF reg[i].name = entry.name THEN entry
                                ELSE reg[i]]
    ELSE Append(reg, entry)

KeywordMatchesAlways(category, lower) == TRUE

(* keywords.some((kw) => lower.includes(kw)) *)
KeywordMatches(category, lower) ==
    \E kw \in Range(CATEGORY_KEYWORDS[category]) : Includes(lower, kw)

SelectedNamesWithoutCore(message, usedToolNames) ==
    LET lower == ToLowerCase(message)
    IN UNION {Range(TOOL_CATEGORIES[c]) :
                 c \in {k \in DOMAIN CATEGORY_KEYWORDS :
                           KeywordMatches(k, lower)}}

SelectedNamesWithoutUsedCategory(message, usedToolNames) ==
    LET lower == ToLowerCase(message)
    IN Range(TOOL_CATEGORIES.core)
       \cup UNION {Range(TOOL_CATEGORIES[c]) :
                      c \in {k \in DOMAIN CATEGORY_KEYWORDS :
                                KeywordMatches(k, lower)}}
       \cup usedToolNames

(* getFilteredToolDefinitions: selectedNames: the core category, the       *)
(* categories a keyword of which the lowered message includes, the used    *)
(* names and the whole category of each used name.                         *)
SelectedNames(message, usedToolNames) ==
    LET lower == ToLowerCase(message)
    IN Range(TOOL_CATEGORIES.core)
       \cup UNION {Range(TOOL_CATEGORIES[c]) :
                      c \in {k \in DOMAIN CATEGORY_KEYWORDS :
                                KeywordMatches(k, lower)}}
       \cup usedToolNames
       \cup UNION {Range(TOOL_CATEGORIES[c]) :
                      c \in {k \in DOMAIN TOOL_CATEGORIES :
                                Range(TOOL_CATEGORIES[k])
                                    \cap usedToolNames # {}}}

(* Array.from(registry.values()).filter(t => selectedNames.has(t.definition.name)) *)
(*     .map(t => t.definition)                                             *)
FilteredDefinitions(reg, message, usedToolNames) ==
    LET selected == SelectedNames(message, usedToolNames)
        Keep(t) == t.name \in selected
    IN Names(SelectSeq(reg, Keep))

UnknownToolSucceeds == [NoOutput EXCEPT !.result = "Unknown tool"]

(* return { result: { result: `Unknown tool: ...`, isError: true },        *)
(*          wasConfirmationGated: false }                                  *)
UnknownTool == [NoOutput EXCEPT !.result = "Unknown tool", !.isError = TRUE]

NoCall ==
    [op |-> "none", name |-> "none", message |-> <<>>, used |-> {},
     out |-> <<>>, output |-> NoOutput, executed |-> 0]

RegistryInit ==
    /\ SelectIdle
    /\ HistoryIdle
    /\ now = 0
    /\ GateIdle
    /\ HookIdle
    /\ LoopIdle
    /\ ToolsIdle
    /\ rg = [registry |-> <<>>, initialized |-> FALSE,
             registrations |-> <<>>, calls |-> 0, last |-> NoCall]

(* The register...Tools() calls of initializeTools: registerTool for each  *)
(* tool in turn.                                                           *)
RECURSIVE RegisterAll(_, _)
RegisterAll(reg, entries) ==
    IF entries = <<>> THEN reg
    ELSE LET next == MapSet(reg, Head(entries))
         IN IF Len(next) > 0 THEN RegisterAll(next, Tail(entries)) ELSE next

AlreadyInitializedNever(initialized) == FALSE

(* if (initialized) return *)
AlreadyInitialized(initialized) == initialized

(* initializeTools(): every entry point calls it before it uses the        *)
(* registry; the first call registers the tools, a later one returns at    *)
(* the flag.                                                               *)
InitializeTools ==
    /\ rg.calls < MaxCalls
    /\ IF AlreadyInitialized(rg.initialized)
       THEN rg' = [rg EXCEPT !.calls = @ + 1,
                     !.last = [NoCall EXCEPT !.op = "initializeTools"]]
       ELSE rg' = [rg EXCEPT !.initialized = TRUE,
                     !.registry = RegisterAll(@, InitialRegistry),
                     !.calls = IF rg.initialized THEN @ + 1 ELSE @,
                     !.last = [NoCall EXCEPT !.op = "initializeTools"]]
    /\ UNCHANGED <<store, usedIds, saved, execLog, registryFrame>>

(* registerTool(definition, execute, options): the executor of the k-th    *)
(* later registration is numbered k + 1.                                   *)
RegisterTool ==
    /\ rg.initialized
    /\ rg.calls < MaxCalls
    /\ Len(rg.registrations) < MaxRegistrations
    /\ \E name \in RegisterNames, flag \in BOOLEAN :
        LET entry == [name |-> name,
                      execute |-> Len(rg.registrations) + 2,
                      requiresConfirmation |-> flag]
        IN rg' = [rg EXCEPT !.registry = MapSet(@, entry),
                     !.registrations = Append(@, entry),
                     !.calls = @ + 1,
                     !.last = [NoCall EXCEPT !.op = "registerTool",
                                             !.name = name]]
    /\ UNCHANGED <<store, usedIds, saved, execLog, registryFrame>>

(* getToolDefinitions() *)
GetToolDefinitions ==
    /\ rg.initialized
    /\ rg.calls < MaxCalls
    /\ rg' = [rg EXCEPT !.calls = @ + 1,
                 !.last = [NoCall EXCEPT !.op = "getToolDefinitions",
                                         !.out = Names(rg.registry)]]
    /\ UNCHANGED <<store, usedIds, saved, execLog, registryFrame>>

(* getFilteredToolDefinitions(message, usedToolNames); usedToolNames left  *)
(* out is the empty set.                                                   *)
GetFilteredToolDefinitions ==
    /\ rg.initialized
    /\ rg.calls < MaxCalls
    /\ \E message \in Messages, used \in SUBSET UsedPool :
        rg' = [rg EXCEPT !.calls = @ + 1,
                 !.last = [NoCall EXCEPT
                     !.op = "getFilteredToolDefinitions",
                     !.message = message, !.used = used,
                     !.out = FilteredDefinitions(rg.registry, message, used)]]
    /\ UNCHANGED <<store, usedIds, saved, execLog, registryFrame>>

(* executeTool(block, ctx) on the registry as it is. *)
RegistryExecuteTool ==
    /\ rg.initialized
    /\ rg.calls < MaxCalls
    /\ \E name \in DispatchNames :
        LET call == [NoCall EXCEPT !.op = "executeTool", !.name = name]
        IN IF ~Has(rg.registry, name)
           THEN /\ rg' = [rg EXCEPT !.calls = @ + 1,
                            !.last = [call EXCEPT !.output = UnknownTool]]
                /\ UNCHANGED <<store, usedIds, saved, execLog>>
           ELSE IF GetTool(rg.registry, name).requiresConfirmation
           THEN LET rec == [id |-> FreshId, toolName |-> name,
                            input |-> rg.calls + 1, createdAt |-> now,
                            expiresAt |-> ExpiresAt(now)]
                IN /\ usedIds' = usedIds \cup {FreshId}
                   /\ store' = store \cup {rec}
                   /\ saved' = saved \cup {rec}
                   /\ rg' = [rg EXCEPT !.calls = @ + 1,
                               !.last = [call EXCEPT !.output = [NoOutput EXCEPT
                                   !.result = "queued",
                                   !.wasConfirmationGated = TRUE,
                                   !.pendingActionId = FreshId]]]
                   /\ UNCHANGED execLog
           ELSE \E outcome \in ExecutorOutcomes :
                /\ execLog' = execLog \cup
                       {[by |-> rg.calls + 1, id |-> 0, toolName |-> name,
                         input |-> rg.calls + 1,
                         execute |-> GetTool(rg.registry, name).execute]}
                /\ rg' = [rg EXCEPT !.calls = @ + 1,
                            !.last = [call EXCEPT
                                !.executed = GetTool(rg.registry, name).execute,
                                !.output = [NoOutput EXCEPT
                                    !.result = ResultOf(outcome).result,
                                    !.isError = ResultOf(outcome).isError]]]
                /\ UNCHANGED <<store, usedIds, saved>>
    /\ UNCHANGED registryFrame

(* executeToolDirect(toolName, input, ctx) on the registry as it is. *)
ExecuteToolDirect ==
    /\ rg.initialized
    /\ rg.calls < MaxCalls
    /\ \E name \in DispatchNames :
        LET call == [NoCall EXCEPT !.op = "executeToolDirect", !.name = name]
        IN IF ~Has(rg.registry, name)
           THEN /\ rg' = [rg EXCEPT !.calls = @ + 1,
                            !.last = [call EXCEPT !.output = UnknownTool]]
                /\ UNCHANGED execLog
           ELSE \E outcome \in ExecutorOutcomes :
                /\ execLog' = execLog \cup
                       {[by |-> rg.calls + 1, id |-> 0, toolName |-> name,
                         input |-> rg.calls + 1,
                         execute |-> GetTool(rg.registry, name).execute]}
                /\ rg' = [rg EXCEPT !.calls = @ + 1,
                            !.last = [call EXCEPT
                                !.executed = GetTool(rg.registry, name).execute,
                                !.output = [NoOutput EXCEPT
                                    !.result = ResultOf(outcome).result,
                                    !.isError = ResultOf(outcome).isError]]]
    /\ UNCHANGED <<store, usedIds, saved, registryFrame>>

RegistryNext ==
    \/ InitializeTools
    \/ RegisterTool
    \/ GetToolDefinitions
    \/ GetFilteredToolDefinitions
    \/ RegistryExecuteTool
    \/ ExecuteToolDirect

SpecRegistry == RegistryInit /\ [][RegistryNext]_vars

----------------------------------------------------------------------------
(* Properties of the registry, checked under SpecRegistry.                 *)

(* The step is a call of executeTool or executeToolDirect. *)
Dispatched ==
    /\ rg'.calls # rg.calls
    /\ rg'.last.op \in {"executeTool", "executeToolDirect"}

(* C14: a dispatch that names a tool the registry does not hold returns an *)
(* error result that is not confirmation-gated, persists no pending        *)
(* action, invokes no executor and leaves the registry as it was.          *)
C14_UnknownToolTouchesNothing ==
    [][(Dispatched /\ rg'.last.name \notin Range(Names(rg.registry))) =>
          /\ rg'.last.output.isError
          /\ ~rg'.last.output.wasConfirmationGated
          /\ rg'.last.output.pendingActionId = 0
          /\ rg'.last.executed = 0
          /\ store' = store
          /\ saved' = saved
          /\ usedIds' = usedIds
          /\ execLog' = execLog
          /\ rg'.registry = rg.registry]_vars

(* C14's case: executeTool was called with a name the registry does not    *)
(* hold while a pending action was stored.                                 *)
C14_Witness ==
    /\ rg.last.op = "executeTool"
    /\ rg.last.name = "no_such_tool"
    /\ rg.last.output.result = "Unknown tool"
    /\ store # {}

CoreNames ==
    {"web_search", "fetch_url", "list_skills", "read_skill",
     "send_media_to_chat"}

(* C16: whatever the context text and the used tool names, the output of   *)
(* getFilteredToolDefinitions holds every tool of the core category.       *)
C16_CoreAlwaysPresent ==
    rg.last.op = "getFilteredToolDefinitions" =>
        CoreNames \subseteq Range(rg.last.out)

(* C16's case: a text no keyword matches and no used names: the output is  *)
(* the core category.                                                      *)
C16_Witness ==
    /\ rg.last.op = "getFilteredToolDefinitions"
    /\ rg.last.message = <<"h", "e", "l", "l", "o", " ", "t", "h", "e", "r", "e">>
    /\ rg.last.used = {}
    /\ Range(rg.last.out) = CoreNames

(* A keyword of the category is a case-insensitive part of the text. *)
Mentions(message, category) ==
    \E kw \in Range(CATEGORY_KEYWORDS[category]) :
        \E i \in 0..(Len(message) - Len(kw)) :
            \A j \in 1..Len(kw) : LowerChar(message[i + j]) = kw[j]

(* C17: the filter's output is a subset of the registered definitions; a   *)
(* tool of a category other than core is in it only if the text mentions a *)
(* keyword of that category or a tool of that category was used; and for   *)
(* "post a tweet" with nothing used it is the core and twitter categories. *)
C17_FilterSelectsByKeywordOrUse ==
    rg.last.op = "getFilteredToolDefinitions" =>
        /\ Range(rg.last.out) \subseteq Range(Names(rg.registry))
        /\ \A c \in DOMAIN TOOL_CATEGORIES \ {"core"} :
              Range(rg.last.out) \cap Range(TOOL_CATEGORIES[c]) # {} =>
                  \/ Mentions(rg.last.message, c)
                  \/ Range(TOOL_CATEGORIES[c]) \cap rg.last.used # {}
        /\ (/\ rg.last.message =
                  <<"p", "o", "s", "t", " ", "a", " ", "t", "w", "e", "e", "t">>
            /\ rg.last.used = {}) =>
              Range(rg.last.out) = CoreNames \cup
                  {"post_tweet", "reply_to_tweet", "delete_tweet",
                   "get_mentions", "get_tweet_analytics"}

(* C17's case: the filter was called with "post a tweet" and no used names *)
(* and returned tools of the twitter category.                             *)
C17_Witness ==
    /\ rg.last.op = "getFilteredToolDefinitions"
    /\ rg.last.message =
           <<"p", "o", "s", "t", " ", "a", " ", "t", "w", "e", "e", "t">>
    /\ rg.last.used = {}
    /\ "post_tweet" \in Range(rg.last.out)
    /\ "get_channel_stats" \notin Range(rg.last.out)

(* The registration made last under the name, among those made after       *)
(* initializeTools.                                                        *)
LastRegistration(name) ==
    rg.registrations[CHOOSE i \in 1..Len(rg.registrations) :
        /\ rg.registrations[i].name = name
        /\ \A j \in (i + 1)..Len(rg.registrations) :
              rg.registrations[j].name # name]

(* C18: registering a name again replaces the earlier registration: the    *)
(* name is in the list of definitions once, lookup yields the registration *)
(* made last, and a dispatch by the name runs that registration's executor *)
(* and obeys its requiresConfirmation flag.                                *)
C18_LastRegistrationWins ==
    /\ \A i, j \in 1..Len(rg.registry) :
          rg.registry[i].name = rg.registry[j].name => i = j
    /\ \A k \in 1..Len(rg.registrations) :
          LET name == rg.registrations[k].name
          IN /\ Has(rg.registry, name)
             /\ GetTool(rg.registry, name) = LastRegistration(name)
             /\ (rg.last.op \in {"executeTool", "executeToolDirect"}
                 /\ rg.last.name = name) =>
                   /\ rg.last.executed \in {0, LastRegistration(name).execute}
                   /\ rg.last.output.wasConfirmationGated =
                         (/\ rg.last.op = "executeTool"
                          /\ LastRegistration(name).requiresConfirmation)
                   /\ rg.last.executed = 0 =>
                         rg.last.output.wasConfirmationGated
    /\ rg.last.op = "getToolDefinitions" =>
          \A i, j \in 1..Len(rg.last.out) :
              rg.last.out[i] = rg.last.out[j] => i = j

(* C18's case: post_tweet, registered by initializeTools with              *)
(* requiresConfirmation, was registered again without it, and executeTool  *)
(* ran the second executor.                                                *)
C18_Witness ==
    /\ Len(rg.registrations) = 1
    /\ rg.registrations[1] =
           [name |-> "post_tweet", execute |-> 2,
            requiresConfirmation |-> FALSE]
    /\ Len(rg.registry) = Len(InitialRegistry)
    /\ rg.last.op = "executeTool"
    /\ rg.last.name = "post_tweet"
    /\ rg.last.executed = 2

----------------------------------------------------------------------------
(* More properties of processUpdate, checked under SpecHook.               *)

(* C20: handling a message without text never creates, overwrites or       *)
(* deletes the per-chat lock, never calls the model service, never runs a  *)
(* tool and never saves the conversation.                                  *)
C20_NonTextTouchesNoLock ==
    [][\A d \in Deliveries :
          (dl[d].kind = "nontext" /\ dl'[d] # dl[d]) =>
              /\ lock' = lock
              /\ dl'[d].pc \notin {"lockGet", "lockPut", "turn", "save"}
              /\ dl'[d].effects \cap {"model", "tool"} = {}]_vars

----------------------------------------------------------------------------
(* A property of the commands, checked under SpecCommands.                 *)

(* C15: /approve and /reject are idempotent against double invocation: a   *)
(* command issued again right after the same command has returned, with no *)
(* other request before, between or during the two, executes no tool and   *)
(* removes no pending action.                                              *)
C15_DoubleCommandIsIdempotent ==
    \A p, q \in Procs :
        (/\ p < q
         /\ gp[p].pc = "done"
         /\ gp[q].pc = "done"
         /\ gp[p].kind \in {"approve", "reject"}
         /\ gp[q].kind = gp[p].kind
         /\ gp[q].quiet
         /\ \A r \in Procs \ {p, q} : gp[r].pc = "idle") =>
            /\ gp[q].action = NoAction
            /\ \A x \in execLog : x.by # q
            /\ gp[q].msg = "No pending actions"

----------------------------------------------------------------------------
(* Properties of /approve and /reject, checked under SpecCommands.         *)

(* The step is Pick's choice of actions[0] by process p. *)
Picks(p) == gp[p].pc = "scan" /\ gp'[p].pc \in {"exec", "delete"}

(* The record chosen is not expired at the time the load read the clock,   *)
(* was among those loaded, and no record of the listing that is still      *)
(* stored and not expired was created later.                               *)
PicksMostRecent(p) ==
    LET chosen == gp'[p].action
    IN /\ chosen \in saved
       /\ chosen \in Range(gp[p].actions)
       /\ gp[p].nowL <= chosen.expiresAt
       /\ \A r \in store :
             (r.id \in Range(gp[p].listed) /\ gp[p].nowL <= r.expiresAt) =>
                 r.createdAt <= chosen.createdAt

(* A step of command p removes from the store only the record it chose,    *)
(* at its delete, or a record that had expired when its load read the      *)
(* clock.                                                                  *)
RemovesOnlyChosenOrExpired(p) ==
    \A r \in store \ store' :
        \/ gp[p].pc = "delete" /\ r.id = gp[p].action.id
        \/ gp[p].pc = "expire" /\ gp[p].nowL > r.expiresAt

(* C21: /approve picks the non-expired pending action created last, runs   *)
(* its executor with the stored input without queuing anything, and then   *)
(* removes that record only.                                               *)
C21_ApproveRunsMostRecent ==
    [][\A p \in Procs :
          (gp[p].kind = "approve" /\ gp'[p] # gp[p]) =>
              /\ RemovesOnlyChosenOrExpired(p)
              /\ Picks(p) => PicksMostRecent(p)
              /\ gp[p].pc = "exec" =>
                    /\ gp[p].action \in saved
                    /\ execLog' = execLog \cup
                           {[by |-> p, id |-> gp[p].action.id,
                             toolName |-> gp[p].action.toolName,
                             input |-> gp[p].action.input]}
                    /\ store' = store
                    /\ saved' = saved
                    /\ usedIds' = usedIds
              /\ gp[p].pc = "delete" =>
                    /\ store' = {r \in store : r.id # gp[p].action.id}
                    /\ execLog' = execLog]_vars

(* C21's case: /approve has executed the later of two pending actions and  *)
(* the earlier one is still stored and was not executed.                   *)
C21_Witness ==
    \E p \in Procs :
        /\ gp[p].kind = "approve"
        /\ gp[p].pc = "done"
        /\ \E x \in execLog : x.by = p /\ x.id = gp[p].action.id
        /\ gp[p].action.id \notin StoredIds
        /\ \E r \in store :
              /\ r.createdAt < gp[p].action.createdAt
              /\ \A x \in execLog : x.id # r.id

(* C22: in /approve the record is deleted before the executor is invoked:  *)
(* when the executor starts, the store no longer holds the record.         *)
C22_DeleteBeforeExecute ==
    [][\A p \in Procs :
          (gp[p].pc = "exec" /\ gp'[p].pc = "delete" /\ execLog' # execLog) =>
              gp[p].action.id \notin StoredIds]_vars

(* C23: of the commands that race on one pending action at most one acts   *)
(* on it; every other one finds nothing pending.                           *)
C23_RaceHasOneWinner ==
    \A p, q \in Procs :
        (/\ p # q
         /\ gp[p].kind \in {"approve", "reject"}
         /\ gp[q].kind \in {"approve", "reject"}
         /\ gp[p].pc = "done"
         /\ gp[q].pc = "done"
         /\ gp[p].action # NoAction) =>
            gp[q].action.id # gp[p].action.id

(* C24: /reject invokes no executor; it picks the non-expired pending      *)
(* action created last, removes it and reports the cancellation; with      *)
(* nothing loaded it leaves the store alone and reports nothing pending.   *)
C24_RejectDeletesWithoutExecuting ==
    [][\A p \in Procs :
          (gp[p].kind = "reject" /\ gp'[p] # gp[p]) =>
              /\ execLog' = execLog
              /\ saved' = saved
              /\ RemovesOnlyChosenOrExpired(p)
              /\ Picks(p) => PicksMostRecent(p)
              /\ gp[p].pc = "delete" =>
                    /\ store' = {r \in store : r.id # gp[p].action.id}
                    /\ gp[p].action.id \in rejected'
                    /\ gp'[p].msg = "Action cancelled"
              /\ (gp[p].pc = "scan" /\ gp'[p].pc = "done") =>
                    /\ store' = store
                    /\ rejected' = rejected
                    /\ gp'[p].msg = "No pending actions"
                    /\ \A r \in store : r.id \notin Range(gp[p].listed)]_vars

(* C24's case: /reject has cancelled the later of two pending actions, the *)
(* earlier one is still stored, and no executor has run.                   *)
C24_Witness ==
    \E p \in Procs :
        /\ gp[p].kind = "reject"
        /\ gp[p].pc = "done"
        /\ gp[p].msg = "Action cancelled"
        /\ gp[p].action.id \in rejected
        /\ gp[p].action.id \notin StoredIds
        /\ \E r \in store : r.createdAt < gp[p].action.createdAt
        /\ execLog = {}

(* C25: a load that meets a record whose expiresAt has passed deletes it   *)
(* and leaves it out of its result; a command that loaded nothing reports  *)
(* nothing pending and executes nothing.                                   *)
C25_ExpiredIsDeletedAndOmitted ==
    [][\A p \in Procs :
          (gp[p].kind \in {"approve", "reject"} /\ gp'[p] # gp[p]) =>
              /\ (/\ gp[p].pc = "scan"
                  /\ gp[p].idx <= Len(gp[p].listed)
                  /\ \E r \in store : /\ r.id = gp[p].listed[gp[p].idx]
                                      /\ gp[p].nowL > r.expiresAt) =>
                    /\ gp'[p].pc = "expire"
                    /\ gp'[p].actions = gp[p].actions
              /\ gp[p].pc = "expire" =>
                    /\ gp[p].listed[gp[p].idx] \notin {r.id : r \in store'}
                    /\ gp'[p].actions = gp[p].actions
              /\ Picks(p) => gp[p].nowL <= gp'[p].action.expiresAt
              /\ (/\ gp[p].pc = "scan"
                  /\ gp[p].idx > Len(gp[p].listed)
                  /\ gp[p].actions = <<>>) =>
                    /\ gp'[p].pc = "done"
                    /\ gp'[p].msg = "No pending actions"
                    /\ execLog' = execLog]_vars

(* C25's case: the chat's only pending action had expired when /approve    *)
(* loaded it: it was deleted, nothing was executed, nothing is pending.    *)
C25_Witness ==
    \E p \in Procs :
        /\ gp[p].kind = "approve"
        /\ gp[p].pc = "done"
        /\ gp[p].msg = "No pending actions"
        /\ Cardinality(saved) = 1
        /\ \A r \in saved : r.id \in expired
        /\ store = {}
        /\ execLog = {}

(* C26: when the executor throws during /approve the result is a tool      *)
(* error with isError = TRUE, the command ends by reporting a failed       *)
(* action, and the record is deleted.                                      *)
C26_ApproveExecutorThrowIsToolError ==
    \A p \in Procs :
        (/\ gp[p].kind = "approve"
         /\ gp[p].out.result = "Tool error") =>
            /\ gp[p].out.isError
            /\ gp[p].pc \in {"delete", "done"}
            /\ gp[p].pc = "done" =>
                  /\ gp[p].msg = "Action failed"
                  /\ gp[p].action.id \notin StoredIds

(* C26's case: an /approve whose executor threw has finished.              *)
C26_Witness ==
    \E p \in Procs :
        /\ gp[p].kind = "approve"
        /\ gp[p].pc = "done"
        /\ gp[p].out.result = "Tool error"
        /\ gp[p].msg = "Action failed"
        /\ \E x \in execLog : x.by = p

----------------------------------------------------------------------------
(* Properties of the dedup marker and of the lock check, checked under     *)
(* SpecHook.                                                               *)

(* C27: the dedup marker is write-once: of the overlapping deliveries of   *)
(* one update at most one passes the existence check and writes the        *)
(* marker, so no two of them are ever both past the marker write.          *)
C27_MarkerWrittenOnce ==
    \A d, e \in Deliveries :
        (d # e /\ dl[d].uid = dl[e].uid /\ dl[d].kind # "none") =>
            dl[e].kind # dl[d].kind

(* C28: every effect of a delivery comes after the dedup marker of its     *)
(* update id is in the store: a delivery that is past the marker write,    *)
(* holds the lock or has had any effect has its marker stored, and a step  *)
(* of a delivery whose marker is missing leaves the lock alone.            *)
C28_MarkerBeforeEffects ==
    /\ \A d \in Deliveries :
          (\/ dl[d].effects # {}
           \/ dl[d].acquired
           \/ dl[d].pc \in {"callback", "reply", "lockGet", "lockPut",
                            "turn", "save", "catch", "finally"}) =>
              dl[d].uid \in dedup
    /\ \A d \in Deliveries :
          (dl[d].pc \in {"idle", "head", "mark"}) =>
              /\ dl[d].effects = {}
              /\ ~dl[d].acquired
    /\ lock # NoLock =>
          \E d \in Deliveries : dl[d].acquired /\ dl[d].uid \in dedup

(* C28's case: a turn has called the model and run a tool, and the marker  *)
(* of its update id is stored.                                             *)
C28_Witness ==
    \E d \in Deliveries :
        /\ dl[d].pc = "save"
        /\ {"model", "tool"} \subseteq dl[d].effects
        /\ lock = dl[d].lockTs
        /\ dl[d].uid \in dedup

(* C29: a text message whose lock check finds a record younger than the    *)
(* TTL is skipped: it goes straight to the finally block, and it never     *)
(* writes the lock, calls the model, runs a tool or saves the              *)
(* conversation.                                                           *)
C29_LiveLockSkipsMessage ==
    [][\A d \in Deliveries :
          (dl[d].kind = "text" /\ dl'[d] # dl[d]) =>
              /\ (/\ dl[d].pc = "lockGet"
                  /\ lock # NoLock
                  /\ now - lock < LOCK_TTL_MS) =>
                    /\ dl'[d].pc \in {"finally", "crashed"}
                    /\ dl'[d].pc = "finally" => dl'[d].skipped
                    /\ lock' = lock
                    /\ dl'[d].effects \in {dl[d].effects, {"some"}}
              /\ dl[d].skipped =>
                    /\ dl[d].pc = "finally"
                    /\ dl[d].effects = {"store"}
                    /\ dl'[d].pc \in {"done", "crashed"}
                    /\ ~dl'[d].acquired
                    /\ lock' \in {lock, NoLock}]_vars

(* C29's case: a message was skipped while the turn that wrote the lock    *)
(* less than the TTL ago is still running.                                 *)
C29_Witness ==
    \E d, e \in Deliveries :
        /\ d # e
        /\ dl[d].skipped
        /\ dl[d].pc = "finally"
        /\ dl[e].pc = "turn"
        /\ dl[e].lockTs = lock
        /\ now - lock < LOCK_TTL_MS

(* C30: a step of a delivery that did not itself acquire the lock leaves   *)
(* the lock record of a turn in flight as it is.                           *)
C30_NonAcquirerKeepsLock ==
    [][\A d \in Deliveries :
          (/\ dl'[d] # dl[d]
           /\ ~dl'[d].acquired
           /\ \E e \in Deliveries \ {d} :
                 dl[e].pc = "turn" /\ dl[e].lockTs = lock) =>
              lock' = lock]_vars

----------------------------------------------------------------------------
(* Properties of fetchWithRetry and of callClaude's message handling.      *)

(* C31: one fetchWithRetry call sends at most Len(retryDelays) + 1         *)
(* requests: a 429 before the last attempt is followed by a wait of the    *)
(* next delay and one more request, a 429 on the last attempt throws the   *)
(* rate-limit error, and every call ends. Checked under SpecLoopFair.      *)
C31_RetriesAreBounded ==
    /\ [](lp.attempt <= Len(lp.retryDelays))
    /\ [][/\ lp'.attempt # lp.attempt =>
                \/ lp.pc = "head" /\ lp'.attempt = 0
                \/ /\ lp.pc = "request"
                   /\ lp'.pc = "request"
                   /\ lp'.status = 429
                   /\ lp.attempt < Len(lp.retryDelays)
                   /\ lp'.attempt = lp.attempt + 1
                   /\ lp'.clk = After(lp.clk, lp.retryDelays[lp.attempt + 1])
                   /\ lp'.calls = lp.calls
          /\ (lp.pc = "request" /\ lp'.pc = "threw" /\ lp'.status = 429) =>
                /\ lp.attempt = Len(lp.retryDelays)
                /\ lp'.result.error = "rate_limited"]_vars
    /\ (lp.pc = "request") ~> (lp.pc # "request")

(* C31's case: every attempt of a call with the longer delay sequence was  *)
(* answered 429 and the call threw the rate-limit error.                   *)
C31_Witness ==
    /\ lp.pc = "threw"
    /\ lp.status = 429
    /\ lp.result.error = "rate_limited"
    /\ lp.retryDelays = CRON_RETRY_DELAYS
    /\ lp.attempt = Len(CRON_RETRY_DELAYS)

(* C32: a 401 throws the invalid-key error, any other failure status but   *)
(* 429 throws the generic error holding the status and the body, and       *)
(* neither is followed by another request. Checked under SpecLoop.         *)
C32_FailuresAreNotRetried ==
    [][/\ (lp.pc = "request" /\ lp'.pc = "threw") =>
             /\ lp'.status = 401 =>
                   /\ lp'.result.error = "invalid_key"
                   /\ lp'.result.detail = <<>>
             /\ lp'.status \notin {200, 401, 429} =>
                   /\ lp'.result.error = "api_error"
                   /\ Len(lp'.result.detail) = 2
                   /\ lp'.result.detail[1] = lp'.status
                   /\ lp'.result.detail[2] \in Bodies
             /\ lp'.attempt = lp.attempt
             /\ lp'.calls = lp.calls
       /\ (lp.pc = "request" /\ lp'.pc = "request"
              /\ lp'.attempt # lp.attempt) => lp'.status = 429
       /\ (lp.pc = "threw" /\ lp.status \notin {200, 429}) =>
             /\ lp'.pc \in {"threw", "finished"}
             /\ lp'.calls = lp.calls
             /\ lp'.attempt = lp.attempt]_vars

(* C32's case: after one retry the service answered 401 and the turn has   *)
(* finished.                                                               *)
C32_Witness ==
    /\ lp.pc = "finished"
    /\ lp.status = 401
    /\ lp.result.error = "invalid_key"
    /\ lp.attempt = 1
    /\ lp.calls = 1

(* C33: a scheduled turn calls the model service with CRON_RETRY_DELAYS    *)
(* and a webhook turn with DEFAULT_RETRY_DELAYS.                           *)
C33_CronUsesLongDelays ==
    /\ lp.caller = "runScheduledTask" => lp.retryDelays = CRON_RETRY_DELAYS
    /\ lp.caller = "processUpdate" => lp.retryDelays = DEFAULT_RETRY_DELAYS

(* C34: tools are executed only after a response with stop reason tool_use *)
(* when an executor was supplied; any other ok response ends callClaude at *)
(* once with the latest text, no tool executed and nothing appended to     *)
(* the message sequence. Checked under SpecLoop.                           *)
C34_ToolsOnlyOnToolUse ==
    [][/\ (lp.pc = "request" /\ lp'.pc \in {"done", "tools", "head"}) =>
             IF lp'.stop = "tool_use" /\ lp.executeTools
             THEN /\ lp'.pc \in {"tools", "head"}
                  /\ lp'.result = NoResult
             ELSE /\ lp'.pc = "done"
                  /\ lp'.result.kind = "returned"
                  /\ ~lp'.result.exhausted
                  /\ lp'.result.text = IF lp'.lastText # ""
                                       THEN lp'.lastText ELSE NO_RESPONSE
                  /\ lp'.toolCalls = lp.toolCalls
                  /\ lp'.conversationMessages = lp.conversationMessages
       /\ lp'.toolCalls # lp.toolCalls =>
             (lp.pc = "tools" /\ lp.stop = "tool_use" /\ lp.executeTools)
       /\ lp'.conversationMessages # lp.conversationMessages =>
             (lp'.stop = "tool_use" /\ lp.executeTools)]_vars

(* C34's case: with no executor supplied, a response with stop reason      *)
(* tool_use ended the call with the text of that response.          *)
C34_Witness ==
    /\ lp.pc = "done"
    /\ lp.stop = "tool_use"
    /\ ~lp.executeTools
    /\ ~lp.result.exhausted
    /\ lp.result.text = "a"
    /\ lp.toolCalls = 0
    /\ lp.conversationMessages = lp.messages

(* C38: callClaude never changes the caller's message sequence: the        *)
(* assistant and tool-result turns go to the per-turn copy only. Checked   *)
(* under SpecLoop.                                                         *)
C38_CallerMessagesUnchanged ==
    [][/\ lp'.messages = lp.messages
       /\ Len(lp'.conversationMessages) >= Len(lp.conversationMessages)
       /\ SubSeq(lp'.conversationMessages, 1, Len(lp.messages))
             = lp.messages]_vars

(* C38's case: a call that appended two tool iterations to its copy and    *)
(* then failed, the caller's three messages being as they were.            *)
C38_Witness ==
    /\ lp.pc = "threw"
    /\ lp.messages = <<"user", "assistant", "user">>
    /\ Len(lp.conversationMessages) = Len(lp.messages) + 4

----------------------------------------------------------------------------
(* More properties of the registry, checked under SpecRegistry.            *)

(* C35: whatever the context text, the output of                           *)
(* getFilteredToolDefinitions holds every registered name of               *)
(* usedToolNames and every registered tool of each category that holds     *)
(* one of them.                                                            *)
C35_UsedToolsPullTheirCategory ==
    rg.last.op = "getFilteredToolDefinitions" =>
        \A u \in rg.last.used :
            /\ Has(rg.registry, u) => u \in Range(rg.last.out)
            /\ \A c \in DOMAIN TOOL_CATEGORIES :
                  (\E i \in 1..Len(TOOL_CATEGORIES[c]) :
                       TOOL_CATEGORIES[c][i] = u) =>
                      \A j \in 1..Len(TOOL_CATEGORIES[c]) :
                          Has(rg.registry, TOOL_CATEGORIES[c][j]) =>
                              TOOL_CATEGORIES[c][j] \in Range(rg.last.out)

(* C35's case: the text holds no keyword, and the used names are a twitter *)
(* tool and a tool registered later that is in no category: both are in    *)
(* the output, with the other twitter tools.                               *)
C35_Witness ==
    /\ rg.last.op = "getFilteredToolDefinitions"
    /\ rg.last.message = <<"h", "e", "l", "l", "o", " ", "t", "h", "e", "r", "e">>
    /\ rg.last.used = {"delete_tweet", "my_tool"}
    /\ {"delete_tweet", "my_tool", "post_tweet"} \subseteq Range(rg.last.out)

(* C36: initializeTools is idempotent: a call made after the first one     *)
(* registers nothing and leaves the names, the executors and the           *)
(* confirmation flags of the registry as they were.                        *)
C36_InitializeToolsIsIdempotent ==
    [][(rg.initialized /\ rg' # rg /\ rg'.last.op = "initializeTools") =>
          /\ rg'.registry = rg.registry
          /\ rg'.registrations = rg.registrations
          /\ rg'.initialized]_vars

(* C36's case: after a tool was registered again with another executor,    *)
(* initializeTools was called once more and the later registration is      *)
(* still the one in the registry.                                          *)
C36_Witness ==
    /\ rg.last.op = "initializeTools"
    /\ rg.calls >= 2
    /\ rg.registry # InitialRegistry
    /\ Names(rg.registry) = Names(InitialRegistry)
    /\ GetTool(rg.registry, "web_search").execute # 1

----------------------------------------------------------------------------
(* selectModel: the choice of the model tier for a message.                *)

(* MODELS.light and MODELS.standard *)
LIGHT == "claude-haiku-4-5-20251001"

STANDARD == "claude-sonnet-4-5-20250929"

(* const COMPLEX_KEYWORDS *)
COMPLEX_KEYWORDS ==
    {<<"s", "t", "r", "a", "t", "e", "g", "y">>,
     <<"c", "r", "e", "a", "t", "e">>,
     <<"g", "e", "n", "e", "r", "a", "t", "e">>,
     <<"a", "n", "a", "l", "y", "z", "e">>, <<"p", "l", "a", "n">>,
     <<"w", "r", "i", "t", "e">>, <<"b", "u", "i", "l", "d">>,
     <<"r", "e", "s", "e", "a", "r", "c", "h">>, <<"p", "o", "s", "t">>,
     <<"t", "w", "e", "e", "t">>, <<"s", "e", "a", "r", "c", "h">>,
     <<"v", "i", "d", "e", "o">>, <<"i", "m", "a", "g", "e">>,
     <<"m", "o", "l", "t", "b", "o", "o", "k">>,
     <<"c", "o", "n", "t", "e", "n", "t">>,
     <<"s", "c", "h", "e", "d", "u", "l", "e">>,
     <<"c", "a", "m", "p", "a", "i", "g", "n">>,
     <<"d", "r", "a", "f", "t">>, <<"c", "o", "m", "p", "o", "s", "e">>,
     <<"s", "u", "m", "m", "a", "r", "i", "z", "e">>,
     <<"c", "o", "m", "p", "a", "r", "e">>,
     <<"r", "e", "v", "i", "e", "w">>,
     <<"e", "x", "p", "l", "a", "i", "n">>,
     <<"d", "e", "s", "c", "r", "i", "b", "e">>,
     <<"h", "e", "l", "p", " ", "m", "e">>,
     <<"h", "o", "w", " ", "t", "o">>, <<"m", "a", "k", "e">>,
     <<"d", "e", "s", "i", "g", "n">>, <<"f", "i", "n", "d">>,
     <<"l", "o", "o", "k", " ", "u", "p">>,
     <<"w", "h", "a", "t", " ", "i", "s">>,
     <<"w", "h", "a", "t", " ", "a", "r", "e">>}

(* The alternatives of SIMPLE_PATTERNS[0], [1] and [2]. *)
GREETINGS ==
    {<<"h", "i">>, <<"h", "e", "y">>, <<"h", "e", "l", "l", "o">>,
     <<"y", "o">>, <<"s", "u", "p">>, <<"h", "o", "w", "d", "y">>,
     <<"h", "o", "l", "a">>,
     <<"g", "r", "e", "e", "t", "i", "n", "g", "s">>}

ACKNOWLEDGMENTS ==
    {<<"o", "k">>, <<"o", "k", "a", "y">>, <<"k">>, <<"y", "e", "p">>,
     <<"y", "u", "p">>, <<"y", "e", "s">>, <<"n", "o">>, <<"n", "a", "h">>,
     <<"n", "o", "p", "e">>, <<"s", "u", "r", "e">>, <<"f", "i", "n", "e">>,
     <<"c", "o", "o", "l">>, <<"n", "i", "c", "e">>,
     <<"g", "r", "e", "a", "t">>, <<"t", "h", "a", "n", "k", "s">>,
     <<"t", "h", "a", "n", "k", " ", "y", "o", "u">>, <<"t", "y">>,
     <<"t", "h", "x">>, <<"b", "y", "e">>,
     <<"g", "o", "o", "d", "b", "y", "e">>, <<"g", "n">>, <<"g", "m">>,
     <<"l", "o", "l">>, <<"h", "a", "h", "a">>, <<"w", "o", "w">>,
     <<"o", "m", "g">>}

DAY_GREETINGS ==
    {<<"g", "o", "o", "d", " ", "m", "o", "r", "n", "i", "n", "g">>,
     <<"g", "o", "o", "d", " ", "n", "i", "g", "h", "t">>,
     <<"g", "o", "o", "d", " ", "e", "v", "e", "n", "i", "n", "g">>,
     <<"g", "o", "o", "d", " ", "a", "f", "t", "e", "r", "n", "o", "o", "n">>}

(* message.trim(): the message without its leading and trailing blanks.    *)
Trim(s) ==
    LET solid == {i \in 1..Len(s) : s[i] # " "}
    IN IF solid = {} THEN <<>>
       ELSE LET first == CHOOSE i \in solid : \A j \in solid : i <= j
                last == CHOOSE i \in solid : \A j \in solid : j <= i
            IN SubSeq(s, first, last)

(* \w of a regular expression. *)
IsWordChar(c) ==
    c \in {"a", "b", "c", "d", "e", "f", "g", "h", "i", "j", "k", "l", "m",
           "n", "o", "p", "q", "r", "s", "t", "u", "v", "w", "x", "y", "z",
           "A", "B", "C", "D", "E", "F", "G", "H", "I", "J", "K", "L", "M",
           "N", "O", "P", "Q", "R", "S", "T", "U", "V", "W", "X", "Y", "Z",
           "0", "1", "2", "3", "4", "5", "6", "7", "8", "9", "_"}

(* /^(hi|hey|...)\b/i: an alternative at the start, followed by the end    *)
(* of the text or by a character that is not a word character.             *)
MatchesGreeting(trimmed) ==
    \E w \in GREETINGS :
        /\ IsPrefix(w, ToLowerCase(trimmed))
        /\ Len(trimmed) = Len(w) \/ ~IsWordChar(trimmed[Len(w) + 1])

(* /^(...)$/i: the whole text is one of the alternatives, in any case.     *)
MatchesWhole(trimmed) ==
    ToLowerCase(trimmed) \in ACKNOWLEDGMENTS \cup DAY_GREETINGS

(* SIMPLE_PATTERNS.some(pattern => pattern.test(trimmed)) *)
MatchesSimplePattern(trimmed) ==
    MatchesGreeting(trimmed) \/ MatchesWhole(trimmed)

(* lower.includes(keyword) for some keyword of COMPLEX_KEYWORDS *)
HasComplexKeyword(lower) == \E kw \in COMPLEX_KEYWORDS : Includes(lower, kw)

LONG_MESSAGE == 40

SelectModelPatternFirst(message) ==
    LET trimmed == Trim(message)
    IN IF Len(trimmed) >= LONG_MESSAGE THEN STANDARD
       ELSE IF MatchesSimplePattern(trimmed) THEN LIGHT
       ELSE STANDARD

(* selectModel(message) *)
SelectModel(message) ==
    LET trimmed == Trim(message)
    IN IF Len(trimmed) >= LONG_MESSAGE THEN STANDARD
       ELSE IF HasComplexKeyword(ToLowerCase(trimmed)) THEN STANDARD
       ELSE IF MatchesSimplePattern(trimmed) THEN LIGHT
       ELSE STANDARD

(* The texts selectModel is called with: blanks or none in front, a first  *)
(* word or phrase, and what follows it.                                    *)
Leads ==
    {<<>>, <<" ">>}

Heads ==
    {<<"h", "i">>, <<"H", "e", "y">>, <<"h", "e", "l", "l", "o">>,
     <<"y", "o">>, <<"s", "u", "p">>, <<"s", "u", "p", "p", "e", "r">>,
     <<"o", "k">>, <<"O", "K">>, <<"k">>, <<"t", "h", "a", "n", "k", "s">>,
     <<"T", "h", "a", "n", "k", " ", "Y", "o", "u">>,
     <<"g", "o", "o", "d", " ", "m", "o", "r", "n", "i", "n", "g">>,
     <<"G", "o", "o", "d", " ", "N", "i", "g", "h", "t">>,
     <<"l", "o", "l">>, <<"p", "l", "a", "n">>,
     <<"w", "h", "a", "t", " ", "i", "s">>, <<"w", "h", "y">>, <<"n", "o">>,
     <<"n", "o", "p", "e">>, <<>>}

Tails ==
    {<<>>, <<" ">>, <<"!">>, <<" ", "t", "h", "e", "r", "e">>, <<"s">>,
     <<"_", "x">>,
     <<" ", "m", "a", "k", "e", " ", "a", " ", "v", "i", "d", "e", "o">>,
     <<" ", "z", "z", "z", "z", "z", "z", "z", "z", "z", "z", "z", "z", "z", "z", "z", "z", "z", "z", "z", "z", "z", "z", "z", "z", "z", "z", "z", "z", "z", "z", "z", "z", "z", "z", "z", "z">>,
     <<" ", "z", "z", "z", "z", "z", "z", "z", "z", "z", "z", "z", "z", "z", "z", "z", "z", "z", "z", "z", "z", "z", "z", "z", "z", "z", "z", "z", "z", "z", "z", "z", "z", "z", "z", "z">>}

MaxSelects == 2

SelectInit ==
    /\ now = 0
    /\ GateIdle
    /\ HookIdle
    /\ LoopIdle
    /\ ToolsIdle
    /\ RegistryIdle
    /\ HistoryIdle
    /\ sm = [calls |-> 0, message |-> <<>>, model |-> "none"]

(* const selectedModel = selectModel(text) *)
CallSelectModel ==
    /\ sm.calls < MaxSelects
    /\ \E lead \in Leads, head \in Heads, tail \in Tails :
        LET message == lead \o head \o tail
        IN sm' = [calls |-> sm.calls + 1, message |-> message,
                  model |-> SelectModel(message)]
    /\ UNCHANGED selectFrame

SelectNext == CallSelectModel

SpecSelect == SelectInit /\ [][SelectNext]_vars

(* C37: selectModel returns the light tier only for a message that, once   *)
(* trimmed, is shorter than 40 characters, holds no complexity keyword and *)
(* matches a greeting or acknowledgment pattern, and the standard tier for *)
(* every other message. Checked under SpecSelect.                          *)
C37_LightOnlyForSmallTalk ==
    sm.calls > 0 =>
        LET trimmed == Trim(sm.message)
            small == /\ Len(trimmed) < 40
                     /\ \A kw \in COMPLEX_KEYWORDS :
                           ~Includes(ToLowerCase(trimmed), kw)
                     /\ MatchesSimplePattern(trimmed)
        IN /\ sm.model \in {LIGHT, STANDARD}
           /\ sm.model = LIGHT <=> small

(* C37's case: a greeting followed by a request that holds a complexity    *)
(* keyword got the standard tier.                                          *)
C37_Witness ==
    /\ sm.calls > 0
    /\ sm.message = <<"h", "i", " ", "m", "a", "k", "e", " ", "a", " ",
                      "v", "i", "d", "e", "o">>
    /\ MatchesSimplePattern(Trim(sm.message))
    /\ sm.model = STANDARD

----------------------------------------------------------------------------
(* The stored conversation of one chat: the text messages of an allowed    *)
(* user, each with an update id of its own, from the lock check to the     *)
(* finally block of processUpdate.                                         *)

NoTurn == [pc |-> "idle", loaded |-> {}, saved |-> FALSE]

HistoryInit ==
    /\ now = 0
    /\ lock = NoLock
    /\ dedup = {}
    /\ dl = <<>>
    /\ GateIdle
    /\ LoopIdle
    /\ ToolsIdle
    /\ RegistryIdle
    /\ SelectIdle
    /\ cv = [conv |-> {}, turn |-> [t \in Deliveries |-> NoTurn]]

(* The message reaches the lock check; messages are numbered in the order  *)
(* they arrive.                                                            *)
HistoryArrive(t) ==
    /\ cv.turn[t].pc = "idle"
    /\ IF t = 1 THEN TRUE ELSE cv.turn[t - 1].pc # "idle"
    /\ cv' = [cv EXCEPT !.turn[t].pc = "lockGet"]
    /\ UNCHANGED <<now, lock, historyFrame>>

(* const existingLock = await bucket.get(chatLockKey) and the TTL test.    *)
HistoryLockGet(t) ==
    /\ cv.turn[t].pc = "lockGet"
    /\ cv' = [cv EXCEPT !.turn[t].pc =
                 IF lock # NoLock /\ LockIsLive(now - lock)
                 THEN "finally" ELSE "lockPut"]
    /\ UNCHANGED <<now, lock, historyFrame>>

(* await bucket.put(chatLockKey, ...) *)
HistoryLockPut(t) ==
    /\ cv.turn[t].pc = "lockPut"
    /\ lock' = now
    /\ cv' = [cv EXCEPT !.turn[t].pc = "load"]
    /\ UNCHANGED <<now, historyFrame>>

(* const conversation = await loadConversation(bucket, chatId) *)
LoadConversation(t) ==
    /\ cv.turn[t].pc = "load"
    /\ cv' = [cv EXCEPT !.turn[t].pc = "call", !.turn[t].loaded = cv.conv]
    /\ UNCHANGED <<now, lock, historyFrame>>

(* buildSystemPrompt, callClaude and the tool log put: callClaude returns, *)
(* or one of them throws and the catch block leads to the finally block.   *)
HistoryCall(t) ==
    /\ cv.turn[t].pc = "call"
    /\ \E throws \in BOOLEAN :
        cv' = [cv EXCEPT !.turn[t].pc = IF throws THEN "finally" ELSE "save",
                         !.turn[t].loaded = IF throws THEN {} ELSE @]
    /\ UNCHANGED <<now, lock, historyFrame>>

(* conversation.messages.push(user, assistant);                            *)
(* await saveConversation(bucket, conversation): the object is replaced by *)
(* the loaded conversation with the two messages of this turn.             *)
SaveConversation(t) == cv.turn[t].loaded \cup {t}

(* The save, which may fail at the store, then the reply, then the finally *)
(* block.                                                                  *)
HistorySave(t) ==
    /\ cv.turn[t].pc = "save"
    /\ \E throws \in BOOLEAN :
        cv' = [cv EXCEPT !.conv = IF throws THEN @ ELSE SaveConversation(t),
                         !.turn[t].saved = ~throws,
                         !.turn[t].loaded = {},
                         !.turn[t].pc = "finally"]
    /\ UNCHANGED <<now, lock, historyFrame>>

(* finally: await bucket.delete(chatLockKey).catch(() => {}) *)
HistoryFinally(t) ==
    /\ cv.turn[t].pc = "finally"
    /\ \E deleted \in BOOLEAN : lock' = IF deleted THEN NoLock ELSE lock
    /\ cv' = [cv EXCEPT !.turn[t].pc = "done"]
    /\ UNCHANGED <<now, historyFrame>>

HistoryTick ==
    /\ now < MaxTime
    /\ lock # NoLock
    /\ now' = now + 1
    /\ UNCHANGED <<lock, cv, historyFrame>>

HistoryNext ==
    \/ \E t \in Deliveries : HistoryArrive(t)
    \/ \E t \in Deliveries : HistoryLockGet(t)
    \/ \E t \in Deliveries : HistoryLockPut(t)
    \/ \E t \in Deliveries : LoadConversation(t)
    \/ \E t \in Deliveries : HistoryCall(t)
    \/ \E t \in Deliveries : HistorySave(t)
    \/ \E t \in Deliveries : HistoryFinally(t)
    \/ HistoryTick

SpecHistory == HistoryInit /\ [][HistoryNext]_vars

(* C39: the stored conversation only grows by whole turns: once every      *)
(* message has been handled it holds the messages of every turn that       *)
(* saved it. Checked under SpecHistory.                                    *)
C39_HistoryKeepsEveryTurn ==
    (\A t \in Deliveries : cv.turn[t].pc \in {"idle", "done"}) =>
        \A t \in Deliveries : cv.turn[t].saved => t \in cv.conv

(* C40: processUpdate returns for a text message that is no duplicate and  *)
(* no command only after a message was sent to the chat. Checked under     *)
(* SpecHook.                                                               *)
C40_TextMessageIsAnswered ==
    [][\A d \in Deliveries :
          (dl[d].kind = "text" /\ dl'[d].pc = "done") =>
              "send" \in dl[d].effects]_vars

====
